---- MODULE Spec2Model ----
(***************************************************************************)
(* A model of pyxb/Namespace.py: the per-URI namespace registry, the       *)
(* deferred-resolution loop (resolveDefinitions), the dependency ordering  *)
(* (SortByDependency) and the scoped NamespaceContext.                     *)
(*                                                                         *)
(* Each part has a specification of its own over the same variables:       *)
(*   Spec          the registry operations                                 *)
(*   SpecResolve   resolveDefinitions with components that follow the      *)
(*                 _resolve contract                                       *)
(*   SpecResolveFree  resolveDefinitions with components that use the      *)
(*                 queueing interface freely                               *)
(*   SpecSort      SortByDependency                                        *)
(*   SpecContext   NamespaceContext construction over a document tree      *)
(*   SpecQName     interpretQName on the contexts of one element           *)
(*   SpecTree      interpretQName on the contexts of a document            *)
(*   SpecScope     prefixed and unprefixed references on the contexts of   *)
(*                 a document                                              *)
(*   SpecContent   the category maps, components and pending list of a     *)
(*                 namespace                                               *)
(*   SpecSave      saveToFile                                              *)
(*   SpecLoad      LoadFromFile on files written by saveToFile             *)
(*   SpecValidate  validateSchema, _defineSchema_overload and the index    *)
(*                 of cache files                                          *)
(*   SpecRecompile resolveDefinitions and the calls that follow a run      *)
(***************************************************************************)
EXTENDS Integers, Sequences, FiniteSets, TLC

(***************************************************************************)
(* Values                                                                  *)
(***************************************************************************)
\* Python's None, as a URI (the absent namespace) and as a prefix.
NoURI == "None"
NoPrefix == "None"
\* No instance: what dict.get returns for a missing key.
NoInstance == 0

\* The URIs of the namespaces created when the module is imported.
XSI_URI == "http://www.w3.org/2001/XMLSchema-instance"
XMLNS_URI == "http://www.w3.org/2000/xmlns/"
XML_URI == "http://www.w3.org/XML/1998/namespace"
XS_URI == "http://www.w3.org/2001/XMLSchema"
XHTML_URI == "http://www.w3.org/1999/xhtml"
HFP_URI == "http://www.w3.org/2001/XMLSchema-hasFacetAndProperty"
BuiltinURIs == {XSI_URI, XMLNS_URI, XML_URI, XS_URI, XHTML_URI, HFP_URI}

\* URIs user code names.
UserURIs == {"urn:a", "urn:b"}
URIs == BuiltinURIs \cup UserURIs
\* The URIs the registry operations of the model are called with.
CallURIs == UserURIs \cup {XML_URI}

\* The categories of named objects, the local names and the named objects
\* user code hands to a namespace.
Categories == {"typeDefinition", "elementDeclaration"}
LocalNames == {"n", "m"}
NamedObjects == {"o1", "o2", "o3"}
\* Python's None, as a named object.
NoObject == "None"
\* What the objects' comparison (==, !=) goes by: o1 and o2 are two objects
\* that compare equal, o3 differs from both.
Value(o) == IF o = "o3" THEN "w" ELSE "v"
\* The objects pickle refuses.
Unpicklable == {"o3"}
\* An empty dict.
EmptyDict == [k \in {} |-> NoObject]
\* The paths saveToFile is called with.
Paths == {"f", "g"}
\* Namespace.__PICKLE_FORMAT
PICKLE_FORMAT == "200905041925"

\* The components of the namespace being compiled.
Components == {"A", "B", "C"}
\* The candidates handed to SortByDependency.
SortComps == {"X", "Y", "Z"}
\* Python's None, as the value of a list attribute: no list of components
\* equals it.
NoneList == <<"None">>

\* How many Namespace instances are allocated after the import.
MaxNew == 2
\* How far the history counts the obtain-or-create calls of one URI.
MaxCount == 2
\* How long the pending-resolution list may grow.
MaxQueue == 3
\* How many queueForResolution calls one free _resolve step makes.
MaxEnqueue == 2
\* How many candidates of one call differ from the usual profile.
MaxOdd == 1
\* How many contexts without a node are constructed before the contexts of
\* the document, which are constructed once.
MaxExtra == 1
\* How long the pending-resolution list of a namespace object may grow.
MaxPending == 1
\* How many validation and load calls may be in progress, one inside the
\* other.
MaxDepth == 2

VARIABLES
    Registry,          \* Namespace.__Registry: URI -> instance (0: no entry)
    instances,         \* the live Namespace objects, by identity 1..Len
    absentNamespaceID, \* Namespace.__absentNamespaceID (class counter)
    returned,          \* history: <<uri, instance>> of every obtain-or-create
    returnedCount,     \* history: obtain-or-create calls that returned, per URI
    absentReturned,    \* history: the instances absent creations returned
    lastCall           \* history: the last registry call and its outcome

regVars == <<Registry, instances, absentNamespaceID, returned, returnedCount,
            absentReturned, lastCall>>

\* resolveDefinitions, for the namespace whose components are being compiled
VARIABLES
    deps,                 \* what each component's _resolve waits for
    resolved,             \* the components whose isResolved() is true
    unresolvedComponents, \* self.__unresolvedComponents (a list, or None)
    unresolved,           \* the local snapshot the for loop walks
    ridx,                 \* the for loop's position in the snapshot
    rpc,                  \* where resolveDefinitions stands
    rraised,              \* the exception it ended with
    failed_components     \* the list the LogicError message is built from

resVars == <<deps, resolved, unresolvedComponents, unresolved, ridx, rpc,
            rraised, failed_components>>

\* SortByDependency(components, dependent_class_filter, target_namespace)
VARIABLES
    sattr,        \* what each candidate's accessors return
    sdeps,        \* dependentComponents() of each candidate
    sfilter,      \* dependent_class_filter (a class, or None)
    sortInput,    \* the components argument as passed
    components,   \* the local list of candidates still to place
    emit_order,   \* the local emit_order
    spc,          \* where SortByDependency stands
    sortError,    \* the lines of the LogicError message
    numPasses,    \* history: iterations of the while loop so far
    stalled       \* history: a pass emitted nothing and left candidates

sortVars == <<sattr, sdeps, sfilter, sortInput, components, emit_order, spc,
             sortError, numPasses, stalled>>

\* NamespaceContext: a document, the contexts built for it, and the
\* dictionaries the contexts hold by reference
VARIABLES
    domAttrs,     \* the attributes of each element node of the document
    thirdParent,  \* the parent of the third element
    nsmaps,       \* the prefix dictionaries, by identity 1..Len
    contexts,     \* the NamespaceContext objects, by identity 1..Len
    nodeContext,  \* dom_node.__namespaceContext of each node (0: not set)
    ctxRaised,    \* the exception the last constructor call ended with
    qname         \* the last interpretQName call and its outcome

ctxVars == <<domAttrs, thirdParent, nsmaps, contexts, nodeContext, ctxRaised,
            qname>>

\* The content of a namespace (held in the instance records) as the last
\* content call left it, and serialization
VARIABLES
    catCall,           \* the last content call on a namespace and its outcome
    files,             \* the file system: path -> the objects dumped so far
    PicklingNamespace, \* Namespace.__PicklingNamespace (0: None)
    saveCall           \* the last saveToFile call and its outcome

\* Loading: the index of cache files, the calls in progress and the last
\* load or validation call
VARIABLES
    LoadableNamespaces, \* __LoadableNamespaces: URI -> path (NoDict: None)
    active,             \* the validateSchema and load calls in progress
    loadCall            \* the last load or validation call and its outcome

loadVars == <<LoadableNamespaces, active, loadCall>>

nsVars == <<catCall, files, PicklingNamespace, saveCall, loadVars>>

vars == <<regVars, resVars, sortVars, ctxVars, nsVars>>

(***************************************************************************)
(* Namespace objects                                                       *)
(***************************************************************************)
\* The instance attributes a fresh object reads from the class.
\* absentID = -1: no instance attribute, the class counter is read.
\* categoryMap is a dict of dicts (category -> local name -> object),
\* components a set and unresolvedComponents a list, as _reset leaves them.
\* The flags of validateSchema and _defineSchema_overload read False from
\* the class until a call assigns them.
FreshNamespace(uri) ==
    [uri |-> uri, boundPrefix |-> NoPrefix, isBuiltin |-> FALSE,
     isUndeclared |-> FALSE, absentID |-> -1,
     categoryMap |-> EmptyDict, components |-> {}, unresolvedComponents |-> << >>,
     didValidation |-> FALSE, inValidation |-> FALSE, inSchemaLoad |-> FALSE]

Builtin(uri, prefix, undeclared) ==
    [uri |-> uri, boundPrefix |-> prefix, isBuiltin |-> TRUE,
     isUndeclared |-> undeclared, absentID |-> -1,
     categoryMap |-> EmptyDict, components |-> {}, unresolvedComponents |-> << >>,
     didValidation |-> FALSE, inValidation |-> FALSE, inSchemaLoad |-> FALSE]

\* self._reset(): the category maps, the component set and the
\* pending-resolution list are replaced by empty ones.
Namespace_reset(inst) ==
    [inst EXCEPT !.categoryMap = EmptyDict,
                 !.components = {},
                 !.unresolvedComponents = << >>]

\* The six namespaces the module creates, in the order it creates them.
PredefinedInstances ==
    << Builtin(XSI_URI, "xsi", TRUE),
       Builtin(XMLNS_URI, "xmlns", FALSE),
       Builtin(XML_URI, "xml", TRUE),
       Builtin(XS_URI, NoPrefix, FALSE),
       Builtin(XHTML_URI, NoPrefix, FALSE),
       Builtin(HFP_URI, NoPrefix, FALSE) >>

NumPredefined == Len(PredefinedInstances)

PredefinedRegistry ==
    [u \in URIs \cup {NoURI} |->
        IF \E i \in 1..NumPredefined : PredefinedInstances[i].uri = u
        THEN CHOOSE i \in 1..NumPredefined : PredefinedInstances[i].uri = u
        ELSE NoInstance]

\* Namespace.__new__(cls, uri): the instance for uri, allocated and
\* registered when the registry has none; an absent namespace is allocated
\* and not registered.
Namespace_new_AlwaysAllocates(reg, insts, uri) ==
    [reg |-> IF uri = NoURI THEN reg ELSE [reg EXCEPT ![uri] = Len(insts) + 1],
     insts |-> Append(insts, FreshNamespace(uri)),
     inst |-> Len(insts) + 1]

Namespace_new(reg, insts, uri) ==
    IF reg[uri] = NoInstance
    THEN IF uri = NoURI
         THEN [reg |-> reg,
               insts |-> Append(insts, FreshNamespace(uri)),
               inst |-> Len(insts) + 1]
         ELSE [reg |-> [reg EXCEPT ![uri] = Len(insts) + 1],
               insts |-> Append(insts, FreshNamespace(uri)),
               inst |-> Len(insts) + 1]
    ELSE [reg |-> reg, insts |-> insts, inst |-> reg[uri]]

\* Namespace.__init__(self, uri, bound_prefix=bp) as user code calls it
\* (is_builtin_namespace and is_undeclared_namespace keep their default
\* False): raises LogicError when a bound prefix is given, and otherwise
\* sets the metadata of self and resets its content.
Namespace_init(insts, self, bp) ==
    IF bp # NoPrefix
    THEN [insts |-> insts, raised |-> "LogicError"]
    ELSE [insts |-> [insts EXCEPT ![self] =
                        Namespace_reset([@ EXCEPT !.boundPrefix = bp,
                                                  !.isBuiltin = FALSE,
                                                  !.isUndeclared = FALSE])],
          raised |-> "none"]

\* One more obtain-or-create call returned for uri (the count stops at MaxCount).
Counted(count, uri) ==
    [count EXCEPT ![uri] = IF @ < MaxCount THEN @ + 1 ELSE @]

\* __new__ may allocate: the model allocates at most MaxNew objects.
CanAllocate == Len(instances) < NumPredefined + MaxNew

(***************************************************************************)
(* The registry operations                                                 *)
(***************************************************************************)
RegistryInit ==
    /\ Registry = PredefinedRegistry
    /\ instances = PredefinedInstances
    /\ absentNamespaceID = 0
    /\ returned = {}
    /\ returnedCount = [u \in URIs |-> 0]
    /\ absentReturned = << >>
    /\ lastCall = [op |-> "import", uri |-> NoURI, result |-> NoInstance, raised |-> "none"]

\* Namespace(uri, bound_prefix=bp): type.__call__ runs __new__ and then
\* __init__ on the instance __new__ returned.
Construct(uri, bp) ==
    /\ (Registry[uri] = NoInstance) => CanAllocate
    /\ LET n == Namespace_new(Registry, instances, uri)
           i == Namespace_init(n.insts, n.inst, bp)
       IN /\ Registry' = n.reg
          /\ instances' = i.insts
          /\ IF i.raised = "none"
             THEN /\ lastCall' = [op |-> "Namespace", uri |-> uri, result |-> n.inst, raised |-> "none"]
                  /\ returned' = IF uri = NoURI THEN returned ELSE returned \cup {<<uri, n.inst>>}
                  /\ returnedCount' = IF uri = NoURI THEN returnedCount ELSE Counted(returnedCount, uri)
                  /\ absentReturned' = IF uri = NoURI THEN Append(absentReturned, n.inst) ELSE absentReturned
             ELSE /\ lastCall' = [op |-> "Namespace", uri |-> uri, result |-> NoInstance, raised |-> i.raised]
                  /\ UNCHANGED <<returned, returnedCount, absentReturned>>
    /\ UNCHANGED absentNamespaceID
    /\ UNCHANGED <<resVars, sortVars, ctxVars, nsVars>>

\* NamespaceForURI(uri, create_if_missing)
NamespaceForURI(uri, create_if_missing) ==
    IF uri = NoURI
    THEN /\ lastCall' = [op |-> "NamespaceForURI", uri |-> uri, result |-> NoInstance, raised |-> "LogicError"]
         /\ UNCHANGED <<Registry, instances, absentNamespaceID, returned, returnedCount, absentReturned>>
         /\ UNCHANGED <<resVars, sortVars, ctxVars, nsVars>>
    ELSE IF Registry[uri] = NoInstance /\ create_if_missing
    THEN /\ CanAllocate
         /\ LET n == Namespace_new(Registry, instances, uri)
                i == Namespace_init(n.insts, n.inst, NoPrefix)
            IN /\ Registry' = n.reg
               /\ instances' = i.insts
               /\ returned' = returned \cup {<<uri, n.inst>>}
               /\ returnedCount' = Counted(returnedCount, uri)
               /\ lastCall' = [op |-> "NamespaceForURI", uri |-> uri, result |-> n.inst, raised |-> "none"]
         /\ UNCHANGED <<absentNamespaceID, absentReturned>>
         /\ UNCHANGED <<resVars, sortVars, ctxVars, nsVars>>
    ELSE /\ lastCall' = [op |-> "NamespaceForURI", uri |-> uri, result |-> Registry[uri], raised |-> "none"]
         /\ returned' = IF create_if_missing THEN returned \cup {<<uri, Registry[uri]>>} ELSE returned
         /\ returnedCount' = IF create_if_missing THEN Counted(returnedCount, uri) ELSE returnedCount
         /\ UNCHANGED <<Registry, instances, absentNamespaceID, absentReturned>>
         /\ UNCHANGED <<resVars, sortVars, ctxVars, nsVars>>

\* Namespace.CreateAbsentNamespace() without the increment of the class
\* counter.
CreateAbsentNamespace_SameOrdinal ==
    /\ CanAllocate
    /\ LET n == Namespace_new(Registry, instances, NoURI)
           i == Namespace_init(n.insts, n.inst, NoPrefix)
       IN /\ Registry' = n.reg
          /\ instances' = [i.insts EXCEPT ![n.inst].absentID = absentNamespaceID]
          /\ absentNamespaceID' = absentNamespaceID
          /\ absentReturned' = Append(absentReturned, n.inst)
          /\ lastCall' = [op |-> "CreateAbsentNamespace", uri |-> NoURI, result |-> n.inst, raised |-> "none"]
    /\ UNCHANGED <<returned, returnedCount>>
    /\ UNCHANGED <<resVars, sortVars, ctxVars, nsVars>>

\* Namespace.CreateAbsentNamespace(): Namespace(None), which gets the value
\* of the class counter as its ordinal; the counter is incremented.
CreateAbsentNamespace ==
    /\ CanAllocate
    /\ LET n == Namespace_new(Registry, instances, NoURI)
           i == Namespace_init(n.insts, n.inst, NoPrefix)
       IN /\ Registry' = n.reg
          /\ instances' = [i.insts EXCEPT ![n.inst].absentID = absentNamespaceID]
          /\ absentNamespaceID' = absentNamespaceID + 1
          /\ absentReturned' = Append(absentReturned, n.inst)
          /\ lastCall' = [op |-> "CreateAbsentNamespace", uri |-> NoURI, result |-> n.inst, raised |-> "none"]
    /\ UNCHANGED <<returned, returnedCount>>
    /\ UNCHANGED <<resVars, sortVars, ctxVars, nsVars>>

\* ns._overrideAbsentNamespace(uri): asserts that ns is absent and sets its URI.
OverrideAbsentNamespace(self, uri) ==
    /\ instances[self].uri = NoURI
    /\ instances' = [instances EXCEPT ![self].uri = uri]
    /\ lastCall' = [op |-> "_overrideAbsentNamespace", uri |-> uri, result |-> self, raised |-> "none"]
    /\ UNCHANGED <<Registry, absentNamespaceID, returned, returnedCount, absentReturned>>
    /\ UNCHANGED <<resVars, sortVars, ctxVars, nsVars>>

RegistryNext ==
    \/ \E uri \in CallURIs \cup {NoURI}, bp \in {NoPrefix, "p"} : Construct(uri, bp)
    \/ \E uri \in CallURIs \cup {NoURI}, c \in BOOLEAN : NamespaceForURI(uri, c)
    \/ CreateAbsentNamespace
    \/ \E self \in 1..Len(instances), uri \in CallURIs : OverrideAbsentNamespace(self, uri)

(***************************************************************************)
(* Claims about the registry                                               *)
(***************************************************************************)
\* C1: any two obtain-or-create requests for one non-absent URI returned the
\* identical Namespace instance, whatever registry operations ran in
\* between, and any two absent-namespace creations returned distinct
\* instances.
C1_GetOrCreateIdentity ==
    /\ \A p, q \in returned : p[1] = q[1] => p[2] = q[2]
    /\ \A i, j \in 1..Len(absentReturned) :
          i # j => absentReturned[i] # absentReturned[j]

\* Two requests for one URI have returned, two absent namespaces were created
\* and one of them was given that URI by _overrideAbsentNamespace.
C1_Witness ==
    /\ Len(absentReturned) >= 2
    /\ \E u \in URIs :
          /\ returnedCount[u] >= 2
          /\ \E i \in 1..Len(instances) : instances[i].uri = u /\ Registry[u] # i

\* C2: no two distinct live instances have the same non-absent URI, and every
\* instance with a non-absent URI is the one the registry holds for it.
C2_OnePerURI ==
    \A i, j \in 1..Len(instances) :
        instances[i].uri # NoURI =>
            /\ Registry[instances[i].uri] = i
            /\ (instances[j].uri = instances[i].uri => i = j)

\* C18: a bound prefix is only ever held by the built-in namespaces: after
\* any sequence of user operations the bound prefix of a built-in namespace
\* is the one it was given when the module was imported, and every other
\* namespace has none.
C18_BoundPrefixOnlyBuiltin ==
    \A i \in 1..Len(instances) :
        instances[i].boundPrefix =
            IF i <= NumPredefined THEN PredefinedInstances[i].boundPrefix ELSE NoPrefix

WithOrdinal == {i \in 1..Len(instances) : instances[i].absentID >= 0}

\* The registry holds no entry for None and no absent namespace, and the
\* last lookup by URI returned no absent namespace and no namespace that
\* was created absent.
RegistryHoldsNoAbsent ==
    /\ Registry[NoURI] = NoInstance
    /\ \A u \in URIs :
          Registry[u] # NoInstance =>
              /\ instances[Registry[u]].uri = u
              /\ Registry[u] \notin WithOrdinal
    /\ (lastCall.op = "NamespaceForURI" /\ lastCall.result # NoInstance) =>
          /\ instances[lastCall.result].uri = lastCall.uri
          /\ lastCall.uri # NoURI
          /\ lastCall.result \notin WithOrdinal

\* C19: absent namespaces are never placed in the registry:
\* CreateAbsentNamespace leaves the registry table unchanged and gives each
\* namespace it creates an ordinal distinct from that of every other absent
\* namespace it created, and no lookup by URI returns an absent namespace.
C19_AbsentOutsideRegistry ==
    /\ [][CreateAbsentNamespace => Registry' = Registry]_vars
    /\ [](\A i, j \in WithOrdinal :
             i # j => instances[i].absentID # instances[j].absentID)
    /\ []RegistryHoldsNoAbsent

\* Two absent namespaces were created, one of them was given a URI by
\* _overrideAbsentNamespace, and that URI was then looked up.
C19_Witness ==
    /\ Cardinality(WithOrdinal) >= 2
    /\ lastCall.op = "NamespaceForURI"
    /\ \E i \in WithOrdinal : instances[i].uri = lastCall.uri

(***************************************************************************)
(* The content of a namespace: category maps, components, pending list     *)
(***************************************************************************)
\* dict.get(key): the value, or None.
NameMapGet(name_map, local_name) ==
    IF local_name \in DOMAIN name_map THEN name_map[local_name] ELSE NoObject

\* d[k] = v
DictSet(d, k, v) ==
    [x \in DOMAIN d \cup {k} |-> IF x = k THEN v ELSE d[x]]

\* old_object != named_object: the objects' own comparison.
NotEqual(old_object, named_object) == Value(old_object) # Value(named_object)

\* No content call was made yet.
NoCatCall ==
    [op |-> "none", ns |-> NoInstance, category |-> "None", local_name |-> "None",
     named_object |-> NoObject, old_object |-> NoObject, result |-> NoObject,
     raised |-> "none"]

NoSaveCall == [self |-> NoInstance, file_path |-> "None", raised |-> "none"]

\* No content call and no saveToFile call was made, nothing is on disk.
ContentIdle ==
    /\ catCall = NoCatCall
    /\ files = EmptyDict
    /\ PicklingNamespace = NoInstance
    /\ saveCall = NoSaveCall

\* self.configureCategories(categories): a map for each category that has
\* none; existing maps are not affected.
configureCategories(inst, categories) ==
    LET old == inst.categoryMap
    IN [inst EXCEPT !.categoryMap =
            [c \in DOMAIN old \cup categories |->
                IF c \in DOMAIN old THEN old[c] ELSE EmptyDict]]

\* self.addCategoryObject(category, local_name, named_object), without the
\* test for an object already stored under the name.
addCategoryObject_Replaces(inst, category, local_name, named_object) ==
    IF category \notin DOMAIN inst.categoryMap
    THEN [inst |-> inst, old_object |-> NoObject, result |-> NoObject, raised |-> "KeyError"]
    ELSE LET name_map == inst.categoryMap[category]
             old_object == NameMapGet(name_map, local_name)
         IN [inst |-> [inst EXCEPT !.categoryMap =
                          DictSet(@, category, DictSet(name_map, local_name, named_object))],
             old_object |-> old_object, result |-> named_object, raised |-> "none"]

\* self.addCategoryObject(category, local_name, named_object): categoryMap
\* raises KeyError for a category that was not configured; a name that holds
\* an object which compares unequal raises NamespaceUniquenessError;
\* otherwise the object is stored and returned.
addCategoryObject(inst, category, local_name, named_object) ==
    IF category \notin DOMAIN inst.categoryMap
    THEN [inst |-> inst, old_object |-> NoObject, result |-> NoObject, raised |-> "KeyError"]
    ELSE LET name_map == inst.categoryMap[category]
             old_object == NameMapGet(name_map, local_name)
         IN IF old_object # NoObject /\ NotEqual(old_object, named_object)
            THEN [inst |-> inst, old_object |-> old_object, result |-> NoObject,
                  raised |-> "NamespaceUniquenessError"]
            ELSE [inst |-> [inst EXCEPT !.categoryMap =
                               DictSet(@, category, DictSet(name_map, local_name, named_object))],
                  old_object |-> old_object, result |-> named_object, raised |-> "none"]

\* What a content call leaves alone.
ContentFrame ==
    /\ UNCHANGED <<Registry, absentNamespaceID, returned, returnedCount, absentReturned, lastCall>>
    /\ UNCHANGED <<files, PicklingNamespace, saveCall, loadVars>>
    /\ UNCHANGED <<resVars, sortVars, ctxVars>>

\* ns.configureCategories(categories)
ConfigureCategories(ns, categories) ==
    /\ instances' = [instances EXCEPT ![ns] = configureCategories(@, categories)]
    /\ catCall' = [NoCatCall EXCEPT !.op = "configureCategories", !.ns = ns]
    /\ ContentFrame

\* ns.addCategoryObject(category, local_name, named_object)
AddCategoryObject(ns, category, local_name, named_object) ==
    LET r == addCategoryObject(instances[ns], category, local_name, named_object)
    IN /\ instances' = [instances EXCEPT ![ns] = r.inst]
       /\ catCall' = [op |-> "addCategoryObject", ns |-> ns, category |-> category,
                      local_name |-> local_name, named_object |-> named_object,
                      old_object |-> r.old_object, result |-> r.result,
                      raised |-> r.raised]
       /\ ContentFrame

\* ns._associateComponent(component): asserts that the component is not in
\* the set (set membership goes by the objects' comparison) and adds it.
AssociateComponent(ns, component) ==
    /\ IF \E x \in instances[ns].components : ~NotEqual(x, component)
       THEN /\ catCall' = [NoCatCall EXCEPT !.op = "_associateComponent", !.ns = ns,
                                            !.named_object = component,
                                            !.raised = "AssertionError"]
            /\ UNCHANGED instances
       ELSE /\ catCall' = [NoCatCall EXCEPT !.op = "_associateComponent", !.ns = ns,
                                            !.named_object = component]
            /\ instances' = [instances EXCEPT ![ns].components = @ \cup {component}]
    /\ ContentFrame

\* ns.queueForResolution(resolvable): appends to the pending-resolution list.
NamespaceQueueForResolution(ns, resolvable) ==
    /\ Len(instances[ns].unresolvedComponents) < MaxPending
    /\ instances' = [instances EXCEPT ![ns].unresolvedComponents = Append(@, resolvable)]
    /\ catCall' = [NoCatCall EXCEPT !.op = "queueForResolution", !.ns = ns,
                                    !.named_object = resolvable, !.result = resolvable]
    /\ ContentFrame

\* The namespace user code fills.
ContentURI == "urn:a"
ContentNamespaces == {Registry[ContentURI]} \ {NoInstance}

ContentNext ==
    \/ \E bp \in {NoPrefix, "p"} : Construct(ContentURI, bp)
    \/ \E ns \in ContentNamespaces, cs \in SUBSET Categories : ConfigureCategories(ns, cs)
    \/ \E ns \in ContentNamespaces, c \in Categories, n \in LocalNames, o \in NamedObjects :
          AddCategoryObject(ns, c, n, o)
    \/ \E ns \in ContentNamespaces, o \in {"o1"} : AssociateComponent(ns, o)
    \/ \E ns \in ContentNamespaces, o \in {"o1"} : NamespaceQueueForResolution(ns, o)

(***************************************************************************)
(* Claims about the content of a namespace                                 *)
(***************************************************************************)
\* The step is an addCategoryObject call, the one catCall' describes.
AddStep ==
    /\ catCall'.op = "addCategoryObject"
    /\ catCall'.ns \in ContentNamespaces
    /\ AddCategoryObject(catCall'.ns, catCall'.category, catCall'.local_name,
                         catCall'.named_object)

\* What the category maps of the called namespace held under the name
\* before the step.
HeldBefore ==
    IF catCall'.category \in DOMAIN instances[catCall'.ns].categoryMap
    THEN NameMapGet(instances[catCall'.ns].categoryMap[catCall'.category],
                    catCall'.local_name)
    ELSE NoObject

C33_FirstBindingStays ==
    [][(AddStep /\ HeldBefore # NoObject)
          => /\ NameMapGet(instances'[catCall'.ns].categoryMap[catCall'.category],
                           catCall'.local_name) = HeldBefore
             /\ catCall'.raised = "NamespaceUniquenessError"
                   => \A i \in DOMAIN instances :
                         instances'[i].categoryMap = instances[i].categoryMap]_vars

\* The step is the call Namespace(uri, bound_prefix=bp) for a URI the
\* registry holds an instance for.
ConstructsRegistered(uri, bp) ==
    /\ Registry[uri] # NoInstance
    /\ Construct(uri, bp)

\* C17: constructing a Namespace for a URI that is already registered yields
\* the existing instance and leaves that instance as it was: its category
\* maps, component set, pending-resolution list and bound metadata.
C17_ConstructionIdempotent ==
    [][\A bp \in {NoPrefix, "p"} :
          ConstructsRegistered(ContentURI, bp)
          => /\ lastCall'.raised = "none" => lastCall'.result = Registry[ContentURI]
             /\ instances'[Registry[ContentURI]] = instances[Registry[ContentURI]]]_vars

(***************************************************************************)
(* Serialization of a namespace                                            *)
(***************************************************************************)
\* The category maps hold an object pickle refuses.
HoldsUnpicklable(inst) ==
    \E c \in DOMAIN inst.categoryMap :
        \E n \in DOMAIN inst.categoryMap[c] : inst.categoryMap[c][n] \in Unpicklable

\* What _saveToFile has dumped when it is through with the namespace itself:
\* the URI and the state __getstate__ returns (the format and the URI; the
\* other attributes keep their default None).
IdentityPrefix(inst) == << inst.uri, <<PICKLE_FORMAT, inst.uri>> >>

\* self.saveToFile(file_path) with the test for an absent namespace made
\* after the file is opened and the marker is set.
saveToFile_OpensFirst(fs, marker, inst, self, file_path) ==
    IF inst.uri = NoURI
    THEN [files |-> DictSet(fs, file_path, << >>), marker |-> self, raised |-> "LogicError"]
    ELSE IF HoldsUnpicklable(inst)
         THEN [files |-> DictSet(fs, file_path, IdentityPrefix(inst)),
               marker |-> self, raised |-> "PicklingError"]
         ELSE [files |-> DictSet(fs, file_path, Append(IdentityPrefix(inst), inst.categoryMap)),
               marker |-> NoInstance, raised |-> "none"]

\* self.saveToFile(file_path): LogicError for an absent namespace; otherwise
\* the file is opened for writing (and truncated), the marker is set to self,
\* _saveToFile dumps the URI, the namespace and the category maps, and the
\* marker is set to None.  An exception of a dump leaves the method at once.
saveToFile(fs, marker, inst, self, file_path) ==
    IF inst.uri = NoURI
    THEN [files |-> fs, marker |-> marker, raised |-> "LogicError"]
    ELSE IF HoldsUnpicklable(inst)
         THEN [files |-> DictSet(fs, file_path, IdentityPrefix(inst)),
               marker |-> self, raised |-> "PicklingError"]
         ELSE [files |-> DictSet(fs, file_path, Append(IdentityPrefix(inst), inst.categoryMap)),
               marker |-> NoInstance, raised |-> "none"]

\* self.saveToFile(file_path)
SaveToFile(self, file_path) ==
    LET r == saveToFile(files, PicklingNamespace, instances[self], self, file_path)
    IN /\ files' = r.files
       /\ PicklingNamespace' = r.marker
       /\ saveCall' = [self |-> self, file_path |-> file_path, raised |-> r.raised]
       /\ UNCHANGED <<regVars, catCall, loadVars>>
       /\ UNCHANGED <<resVars, sortVars, ctxVars>>

\* The category and the name the namespace to be saved is filled under.
SaveCategory == "typeDefinition"
SaveName == "n"
\* The namespaces saveToFile is called on: the one user code fills and the
\* absent ones.
SaveNamespaces ==
    {i \in 1..Len(instances) : instances[i].uri \in {ContentURI, NoURI}}

SaveNext ==
    \/ Construct(ContentURI, NoPrefix)
    \/ CreateAbsentNamespace
    \/ \E ns \in ContentNamespaces : ConfigureCategories(ns, {SaveCategory})
    \/ \E ns \in ContentNamespaces, o \in NamedObjects :
          AddCategoryObject(ns, SaveCategory, SaveName, o)
    \/ \E self \in SaveNamespaces, p \in Paths : SaveToFile(self, p)

(***************************************************************************)
(* Claims about serialization                                              *)
(***************************************************************************)
\* The step is a saveToFile call, the one saveCall' describes.
SaveStep ==
    /\ saveCall'.self \in SaveNamespaces
    /\ SaveToFile(saveCall'.self, saveCall'.file_path)

\* C20: saveToFile on an absent namespace fails with LogicError before
\* anything is written (no file is created or changed) and before the
\* currently-being-serialized marker is set (the marker is as it was).
C20_AbsentNotSerialized ==
    [][(SaveStep /\ instances[saveCall'.self].uri = NoURI)
          => /\ saveCall'.raised = "LogicError"
             /\ files' = files
             /\ PicklingNamespace' = PicklingNamespace]_vars

\* saveToFile on an absent namespace has raised, for a path no file exists
\* under, after another namespace was saved.
C20_Witness ==
    /\ saveCall.self # NoInstance
    /\ saveCall.raised = "LogicError"
    /\ instances[saveCall.self].uri = NoURI
    /\ DOMAIN files # {}
    /\ saveCall.file_path \notin DOMAIN files

\* C27: the marker is None in every state outside an invocation of
\* saveToFile, also after a call that ended with an error.  (A saveToFile
\* call is one step here: the marker is set to self at its start and the
\* states between calls are all the states there are.)
C27_MarkerNoneOutsideSave == PicklingNamespace = NoInstance

(***************************************************************************)
(* resolveDefinitions                                                      *)
(***************************************************************************)
\* No resolution is running and nothing is pending: the namespace as
\* _reset leaves it.
ResolveIdle ==
    /\ deps = [c \in Components |-> {}]
    /\ resolved = {}
    /\ unresolvedComponents = << >>
    /\ unresolved = << >>
    /\ ridx = 0
    /\ rpc = "idle"
    /\ rraised = "none"
    /\ failed_components = << >>

\* A batch of components has been created, none resolved yet; each waits
\* for some of the others.
ResolveInit ==
    /\ deps \in [Components -> SUBSET Components]
    /\ \A c \in Components : c \notin deps[c]
    /\ resolved = {}
    /\ unresolvedComponents = << >>
    /\ unresolved = << >>
    /\ ridx = 0
    /\ rpc = "idle"
    /\ rraised = "none"
    /\ failed_components = << >>

InList(x, list) == \E k \in 1..Len(list) : list[k] = x

\* Namespace.queueForResolution(resolvable), called before the run.
QueueForResolution(c) ==
    /\ rpc = "idle"
    /\ Len(unresolvedComponents) < MaxQueue
    /\ unresolvedComponents' = Append(unresolvedComponents, c)
    /\ UNCHANGED <<deps, resolved, unresolved, ridx, rpc, rraised, failed_components>>
    /\ UNCHANGED <<regVars, sortVars, ctxVars, nsVars>>

\* resolveDefinitions is called.
ResolveCall ==
    /\ rpc = "idle"
    /\ rpc' = "while"
    /\ UNCHANGED <<deps, resolved, unresolvedComponents, unresolved, ridx, rraised, failed_components>>
    /\ UNCHANGED <<regVars, sortVars, ctxVars, nsVars>>

\* The while test: with components pending, snapshot the list and clear it;
\* with none, invalidate the list and return.
ResolveWhile ==
    /\ rpc = "while"
    /\ IF 0 < Len(unresolvedComponents)
       THEN /\ unresolved' = unresolvedComponents
            /\ unresolvedComponents' = << >>
            /\ ridx' = 1
            /\ rpc' = "for"
       ELSE /\ unresolvedComponents' = NoneList
            /\ rpc' = "returned"
            /\ UNCHANGED <<unresolved, ridx>>
    /\ UNCHANGED <<deps, resolved, rraised, failed_components>>
    /\ UNCHANGED <<regVars, sortVars, ctxVars, nsVars>>

\* What follows resolvable._resolve() in the for loop, without the
\* assertion.
AfterResolve_NoAssertion(c, newResolved, newQueue) ==
    /\ resolved' = newResolved
    /\ unresolvedComponents' = newQueue
    /\ ridx' = ridx + 1
    /\ rpc' = IF ridx = Len(unresolved) THEN "compare" ELSE "for"
    /\ rraised' = rraised
    /\ UNCHANGED <<deps, unresolved, failed_components>>
    /\ UNCHANGED <<regVars, sortVars, ctxVars, nsVars>>

\* What follows resolvable._resolve() in the for loop: the assertion that
\* the component is resolved or queued again, and the next position.
AfterResolve(c, newResolved, newQueue) ==
    /\ resolved' = newResolved
    /\ unresolvedComponents' = newQueue
    /\ IF c \in newResolved \/ InList(c, newQueue)
       THEN /\ ridx' = ridx + 1
            /\ rpc' = IF ridx = Len(unresolved) THEN "compare" ELSE "for"
            /\ rraised' = rraised
       ELSE /\ rpc' = "raised"
            /\ rraised' = "AssertionError"
            /\ ridx' = ridx
    /\ UNCHANGED <<deps, unresolved, failed_components>>
    /\ UNCHANGED <<regVars, sortVars, ctxVars, nsVars>>

\* _resolve completing whatever its component waits for.
ContractResolve_IgnoresDependencies(c) ==
    [resolved |-> resolved \cup {c}, queue |-> unresolvedComponents]

\* _resolve as its contract describes it: return at once when resolved,
\* complete when nothing it waits for is unresolved, and otherwise queue
\* the component again.
ContractResolve(c) ==
    IF c \in resolved
    THEN [resolved |-> resolved, queue |-> unresolvedComponents]
    ELSE IF deps[c] \subseteq resolved
    THEN [resolved |-> resolved \cup {c}, queue |-> unresolvedComponents]
    ELSE [resolved |-> resolved, queue |-> Append(unresolvedComponents, c)]

\* One iteration of the for loop, with a component that follows the contract.
ResolveFor ==
    /\ rpc = "for"
    /\ LET c == unresolved[ridx]
           r == ContractResolve(c)
       IN AfterResolve(c, r.resolved, r.queue)

\* The lists a free step may append: up to MaxEnqueue components.
EnqueueLists == UNION {[1..n -> Components] : n \in 0..MaxEnqueue}

\* One iteration of the for loop, with a component whose _resolve uses the
\* queueing interface freely: it may resolve its component, and it queues any
\* components (itself included) through queueForResolution.
ResolveForFree ==
    /\ rpc = "for"
    /\ \E completes \in BOOLEAN, q \in EnqueueLists :
         /\ Len(unresolvedComponents) + Len(q) <= MaxQueue
         /\ LET c == unresolved[ridx]
            IN AfterResolve(c,
                            IF completes THEN resolved \cup {c} ELSE resolved,
                            unresolvedComponents \o q)

\* The comparison written as a test for a non-empty work list.
ResolveCompare_RaisesWhilePending ==
    /\ rpc = "compare"
    /\ IF 0 < Len(unresolvedComponents)
       THEN /\ rpc' = "raised"
            /\ rraised' = "NameError"
       ELSE /\ rpc' = "while"
            /\ rraised' = rraised
    /\ UNCHANGED <<deps, resolved, unresolvedComponents, unresolved, ridx, failed_components>>
    /\ UNCHANGED <<regVars, sortVars, ctxVars, nsVars>>

\* After the for loop: a pass that left the work list equal to the snapshot
\* made no progress. The report is built by testing each stuck component
\* with isinstance(d, _NamedComponent_mixin); the module neither defines nor
\* imports that name, so the test of the first component raises NameError
\* and the LogicError is never constructed.
ResolveCompare ==
    /\ rpc = "compare"
    /\ IF unresolvedComponents = unresolved
       THEN /\ rpc' = "raised"
            /\ rraised' = "NameError"
       ELSE /\ rpc' = "while"
            /\ rraised' = rraised
    /\ UNCHANGED <<deps, resolved, unresolvedComponents, unresolved, ridx, failed_components>>
    /\ UNCHANGED <<regVars, sortVars, ctxVars, nsVars>>

ResolveNext ==
    \/ \E c \in Components : QueueForResolution(c)
    \/ ResolveCall
    \/ ResolveWhile
    \/ ResolveFor
    \/ ResolveCompare

ResolveFreeNext ==
    \/ \E c \in Components : QueueForResolution(c)
    \/ ResolveCall
    \/ ResolveWhile
    \/ ResolveForFree
    \/ ResolveCompare

\* queueForResolution(resolvable) after a run has returned: the list is
\* None and None.append raises AttributeError.
LateQueueForResolution(c) ==
    /\ rpc = "returned"
    /\ unresolvedComponents = NoneList
    /\ rraised' = "AttributeError"
    /\ UNCHANGED <<deps, resolved, unresolvedComponents, unresolved, ridx, rpc, failed_components>>
    /\ UNCHANGED <<regVars, sortVars, ctxVars, nsVars>>

\* resolveDefinitions() after a run has returned: len(None) in the while
\* test raises TypeError.
LateResolveDefinitions ==
    /\ rpc = "returned"
    /\ unresolvedComponents = NoneList
    /\ rraised' = "TypeError"
    /\ UNCHANGED <<deps, resolved, unresolvedComponents, unresolved, ridx, rpc, failed_components>>
    /\ UNCHANGED <<regVars, sortVars, ctxVars, nsVars>>

\* Namespace(uri) called with the URI of the namespace being compiled, while
\* no run is in progress: __new__ returns the registered instance and
\* __init__ runs _reset on it, which assigns a new empty list.
ConstructCompiled ==
    /\ rpc \in {"idle", "returned"}
    /\ unresolvedComponents' = << >>
    /\ rpc' = "idle"
    /\ rraised' = "none"
    /\ UNCHANGED <<deps, resolved, unresolved, ridx, failed_components>>
    /\ UNCHANGED <<regVars, sortVars, ctxVars, nsVars>>

RecompileNext ==
    \/ \E c \in Components : QueueForResolution(c)
    \/ ResolveCall
    \/ ResolveWhile
    \/ ResolveFor
    \/ ResolveCompare
    \/ \E c \in Components : LateQueueForResolution(c)
    \/ LateResolveDefinitions
    \/ ConstructCompiled

(***************************************************************************)
(* Claims about resolveDefinitions                                         *)
(***************************************************************************)
\* The components on the work list.
Pending == {c \in Components : InList(c, unresolvedComponents)}

\* resolveDefinitions has been called and has not begun its first pass.
FirstWhile == rpc = "while" /\ unresolved = << >>

\* The dependencies among the components of S have no cycle: no non-empty
\* part of S has a dependency inside itself for each of its members.
Acyclic(S) ==
    \A T \in SUBSET S :
        T # {} => \E c \in T : deps[c] \cap T = {}

C4_CycleRaisesLogicError ==
    \A a, b \in Components :
        (/\ rpc = "raised"
         /\ a # b /\ a \in deps[b] /\ b \in deps[a]
         /\ InList(a, unresolved) /\ InList(b, unresolved))
        => (/\ rraised = "LogicError"
            /\ InList(a, failed_components)
            /\ InList(b, failed_components))

\* C5: resolveDefinitions never loops forever: whatever the resolution steps
\* do through the queueing interface, a run that was begun ends.
C5_RunEnds == (rpc = "while") ~> (rpc \in {"returned", "raised"})

\* C31: every component of the snapshot the for loop has passed is resolved
\* or stands on the new work list, so after a pass all of the snapshot is;
\* and a step that resolves its component or queues it again does not end
\* in the AssertionError.
C31_ResolvedOrQueuedAgain ==
    /\ [](\A k \in 1..Len(unresolved) :
             k < ridx => \/ unresolved[k] \in resolved
                         \/ InList(unresolved[k], unresolvedComponents))
    /\ [][(/\ rpc = "for"
           /\ \/ unresolved[ridx] \in resolved'
              \/ InList(unresolved[ridx], unresolvedComponents'))
            => rraised' # "AssertionError"]_vars

\* C31 witness: a pass over A and B has ended; B was resolved and A, not
\* resolved, was queued again.
C31_Witness ==
    /\ rpc = "compare"
    /\ unresolved = <<"A", "B">>
    /\ resolved = {"B"}
    /\ InList("A", unresolvedComponents)

\* C28: once resolveDefinitions has returned and invalidated the list (it
\* is None), the list stays invalidated: no later step makes it a list
\* again, so nothing is ever pending on it again.
C28_InvalidatedForGood ==
    [][(rpc = "returned" /\ unresolvedComponents = NoneList)
          => (rpc' = "returned" /\ unresolvedComponents' = NoneList)]_vars

\* The position at which a component first stands in a list.
FirstIndex(x, list) == CHOOSE k \in 1..Len(list) : list[k] = x /\ \A j \in 1..(k - 1) : list[j] # x

\* The for loop asks c to resolve for the first time in this pass, and d is
\* queued later than c (each pass keeps the order of queueing).
RequestedBefore(c, d) ==
    /\ rpc = "for"
    /\ unresolved[ridx] = c
    /\ FirstIndex(c, unresolved) = ridx
    /\ InList(d, unresolved)
    /\ ridx < FirstIndex(d, unresolved)

\* C29 as stated: when the for loop asks a component C to resolve and C
\* depends on a component D queued later, D is resolved already.
C29_DependencyResolvedBeforeRequest ==
    [][\A c, d \in Components :
          (RequestedBefore(c, d) /\ d \in deps[c] /\ ResolveFor) => d \in resolved]_vars

\* C29 amended: C is asked first, while D is unresolved, and then it is
\* not resolved but queued again; no component becomes resolved while
\* something it depends on is unresolved, so D is resolved before C is; and
\* when C and D were pending at the start of a run that returns, both are
\* resolved.
C29_DependencyResolvedFirst ==
    /\ [][\A c, d \in Components :
             (RequestedBefore(c, d) /\ d \in deps[c] /\ d \notin resolved /\ ResolveFor)
                => /\ c \notin resolved'
                   /\ InList(c, unresolvedComponents')]_vars
    /\ [][\A c \in resolved' \ resolved : deps[c] \subseteq resolved]_vars
    /\ \A c, d \in Components :
          []((FirstWhile /\ {c, d} \subseteq Pending /\ d \in deps[c])
                => [](rpc = "returned" => {c, d} \subseteq resolved))

\* C29 witness: A depends on B, queued after it; A has been asked while B
\* was unresolved and stands on the work list again, and B is asked next.
C29_Witness ==
    /\ deps["A"] = {"B"} /\ deps["B"] = {}
    /\ rpc = "for"
    /\ unresolved = <<"A", "B">>
    /\ ridx = 2
    /\ resolved = {}
    /\ unresolvedComponents = <<"A">>

(***************************************************************************)
(* SortByDependency                                                        *)
(***************************************************************************)
\* The target_namespace argument, and the values targetNamespace() returns:
\* the home namespace, another namespace, or None. A component without the
\* accessor (AttributeError) is kept as a candidate and ignored as a
\* dependency, as one that returns None is: "None" stands for both.
Home == "home"
Foreign == "foreign"
NoNamespace == "None"
\* scope(): a scope, or None. A component without the accessor is kept, as
\* one with a scope is: "scoped" stands for both.
Scoped == "scoped"
NoScope == "None"
\* The classes of the components, and no dependent_class_filter.
Classes == {"K1", "K2"}
NoFilter == "None"

\* The profile of the usual candidate: in the home namespace, scoped, not
\* an ur-type, of the class the cohort is sorted for.
Plain == [tns |-> Home, scope |-> Scoped, isUr |-> FALSE, cls |-> "K1"]

\* What a component's accessors may return: the usual profile, or one that
\* differs from it in one accessor.
Profiles ==
    { Plain,
      [Plain EXCEPT !.tns = Foreign],
      [Plain EXCEPT !.tns = NoNamespace],
      [Plain EXCEPT !.scope = NoScope],
      [Plain EXCEPT !.isUr = TRUE],
      [Plain EXCEPT !.cls = "K2"] }

\* The component lists with each candidate once.
Orderings(S) ==
    {p \in [1..Cardinality(S) -> S] : \A c \in S : \E k \in DOMAIN p : p[k] = c}

\* bestNCName() and name() of a candidate, as the rank of its name: the
\* candidates are called X, Y and Z.
NameOrder == <<"X", "Y", "Z">>
BestNCName(c) == CHOOSE k \in 1..Len(NameOrder) : NameOrder[k] = c

SortIdle ==
    /\ sattr = [c \in SortComps |-> Plain]
    /\ sdeps = [c \in SortComps |-> {}]
    /\ sfilter = NoFilter
    /\ sortInput = << >>
    /\ components = << >>
    /\ emit_order = << >>
    /\ spc = "idle"
    /\ sortError = << >>
    /\ numPasses = 0
    /\ stalled = FALSE

\* A call is about to be made with some list of candidates.
SortInit ==
    /\ sattr \in [SortComps -> Profiles]
    /\ Cardinality({c \in SortComps : sattr[c] # Plain}) <= MaxOdd
    /\ sdeps \in [SortComps -> SUBSET SortComps]
    /\ sfilter \in {"K1", NoFilter}
    /\ sortInput \in Orderings(SortComps)
    /\ components = << >>
    /\ emit_order = << >>
    /\ spc = "idle"
    /\ sortError = << >>
    /\ numPasses = 0
    /\ stalled = FALSE

\* "Anything not in this namespace is just thrown away", and "scoped
\* declarations that don't have a scope are tossed out too".
Discarded(td) ==
    \/ sattr[td].tns # Home /\ sattr[td].tns # NoNamespace
    \/ sattr[td].scope = NoScope

\* The tests the inner loop makes before it looks a dependency up in
\* emit_order: the class filter, the namespace, the ur-type, the component
\* itself.
CountsAsDependency(td, dtd) ==
    /\ ~(sfilter # NoFilter /\ sattr[dtd].cls # sfilter)
    /\ sattr[dtd].tns = Home
    /\ ~sattr[dtd].isUr
    /\ dtd # td

\* Every dependency that counts is also taken as placed when it has become
\* ready earlier in the same pass.
IsReady_CountsSamePass(td, emitted, readySoFar) ==
    \A dtd \in sdeps[td] :
        CountsAsDependency(td, dtd) => InList(dtd, emitted) \/ InList(dtd, readySoFar)

\* ready: every dependency that counts is on emit_order already.
IsReady(td, emitted, readySoFar) ==
    \A dtd \in sdeps[td] :
        CountsAsDependency(td, dtd) => InList(dtd, emitted)

\* The for loop over the candidates: <<ready_components, new_components>>.
RECURSIVE ScanCandidates(_, _, _, _)
ScanCandidates(cands, emitted, ready, new) ==
    IF cands = << >>
    THEN <<ready, new>>
    ELSE LET td == Head(cands)
         IN IF Discarded(td)
            THEN ScanCandidates(Tail(cands), emitted, ready, new)
            ELSE IF IsReady(td, emitted, ready)
            THEN ScanCandidates(Tail(cands), emitted, Append(ready, td), new)
            ELSE ScanCandidates(Tail(cands), emitted, ready, Append(new, td))

\* list.sort with cmp on bestNCName: a stable sort.
RECURSIVE InsertByName(_, _)
InsertByName(sorted, td) ==
    IF sorted = << >>
    THEN <<td>>
    ELSE IF BestNCName(Head(sorted)) <= BestNCName(td)
    THEN <<Head(sorted)>> \o InsertByName(Tail(sorted), td)
    ELSE <<td>> \o sorted

RECURSIVE SortByBestNCName(_)
SortByBestNCName(list) ==
    IF list = << >>
    THEN << >>
    ELSE InsertByName(SortByBestNCName(SubSeq(list, 1, Len(list) - 1)), list[Len(list)])

\* One line of the LogicError message: the candidate's name and the names
\* of the components dependentComponents() returns.
ErrorLine_UnplacedOnly(td, emitted) ==
    <<BestNCName(td), {BestNCName(dtd) : dtd \in {d \in sdeps[td] : ~InList(d, emitted)}}>>

ErrorLine(td, emitted) ==
    <<BestNCName(td), {BestNCName(dtd) : dtd \in sdeps[td]}>>

\* SortByDependency is called.
SortCall ==
    /\ spc = "idle"
    /\ components' = sortInput
    /\ emit_order' = << >>
    /\ spc' = "while"
    /\ UNCHANGED <<sattr, sdeps, sfilter, sortInput, sortError, numPasses, stalled>>
    /\ UNCHANGED <<regVars, resVars, ctxVars, nsVars>>

\* One iteration of the while loop, or its end.
SortPass ==
    /\ spc = "while"
    /\ IF 0 < Len(components)
       THEN LET scan == ScanCandidates(components, emit_order, << >>, << >>)
                ready_components == SortByBestNCName(scan[1])
                new_components == scan[2]
            IN /\ emit_order' = emit_order \o ready_components
               /\ numPasses' = numPasses + 1
               /\ stalled' = (stalled \/ (ready_components = << >> /\ new_components # << >>))
               /\ IF components = new_components
                  THEN /\ spc' = "raised"
                       /\ sortError' = [k \in 1..Len(components) |->
                                           ErrorLine(components[k], emit_order')]
                       /\ UNCHANGED components
                  ELSE /\ components' = new_components
                       /\ UNCHANGED <<spc, sortError>>
       ELSE /\ spc' = "returned"
            /\ UNCHANGED <<components, emit_order, sortError, numPasses, stalled>>
    /\ UNCHANGED <<sattr, sdeps, sfilter, sortInput>>
    /\ UNCHANGED <<regVars, resVars, ctxVars, nsVars>>

SortNext ==
    \/ SortCall
    \/ SortPass

\* The whole call as a function of its arguments: the while loop run on the
\* candidate list to its end, giving the order emitted and whether the
\* LogicError was raised.
RECURSIVE SortByDependency(_, _)
SortByDependency(cands, emitted) ==
    IF cands = << >>
    THEN [emit_order |-> emitted, raised |-> FALSE]
    ELSE LET scan == ScanCandidates(cands, emitted, << >>, << >>)
             ready_components == SortByBestNCName(scan[1])
         IN IF cands = scan[2]
            THEN [emit_order |-> emitted \o ready_components, raised |-> TRUE]
            ELSE SortByDependency(scan[2], emitted \o ready_components)

(***************************************************************************)
(* Claims about SortByDependency                                           *)
(***************************************************************************)
SortEnded == spc \in {"returned", "raised"}

\* The dependencies the ordering claim is about: in the home namespace,
\* of the filtered kind, not an ur-type, not the component itself.
OrderedDependency(td, dtd) ==
    /\ dtd \in sdeps[td]
    /\ sattr[dtd].tns = Home
    /\ (sfilter = NoFilter \/ sattr[dtd].cls = sfilter)
    /\ ~sattr[dtd].isUr
    /\ dtd # td

\* C6: at every position of the emitted order, each dependency of the
\* component there that is in the home namespace, matches the kind filter,
\* is not an ur-type and is not the component itself stands at an earlier
\* position.
C6_DependenciesFirst ==
    \A i \in 1..Len(emit_order) :
        \A dtd \in SortComps :
            OrderedDependency(emit_order[i], dtd)
                => \E j \in 1..(i - 1) : emit_order[j] = dtd

\* An order was returned in which a component follows a dependency whose
\* name sorts after its own.
C6_Witness ==
    /\ spc = "returned"
    /\ \E i, j \in 1..Len(emit_order) :
         /\ i < j
         /\ OrderedDependency(emit_order[j], emit_order[i])
         /\ BestNCName(emit_order[j]) < BestNCName(emit_order[i])

\* What a pass appended to the emitted order.
Appended == SubSeq(emit_order', Len(emit_order) + 1, Len(emit_order'))

\* C32: every candidate a pass emits has all its counted dependencies in the
\* order emitted by earlier passes; what a pass emits stands in the order of
\* the best names; and when the call has ended, the call on any other
\* ordering of the same candidates ends the same way with the same order.
C32_LayeredAndDeterministic ==
    /\ [][spc = "while" =>
             /\ \A k \in 1..Len(Appended) :
                   \A dtd \in SortComps :
                      OrderedDependency(Appended[k], dtd) => InList(dtd, emit_order)
             /\ \A j, k \in 1..Len(Appended) :
                   j < k => BestNCName(Appended[j]) < BestNCName(Appended[k])]_vars
    /\ [](SortEnded =>
             \A p \in Orderings(SortComps) :
                SortByDependency(p, << >>) = [emit_order |-> emit_order, raised |-> spc = "raised"])

\* C32 witness: the candidates were given with the names out of order (Z
\* first), two of them became ready in one pass and the third, which
\* depends on one of them, in a later pass; the call has returned the order
\* X, Y, Z.
C32_Witness ==
    /\ spc = "returned"
    /\ sortInput = <<"Z", "Y", "X">>
    /\ emit_order = <<"X", "Y", "Z">>
    /\ numPasses = 2
    /\ OrderedDependency("Z", "X")

\* No dependency, counted or not, closes a cycle among the candidates.
SortAcyclic ==
    \A T \in SUBSET SortComps :
        T # {} => \E c \in T : sdeps[c] \cap T = {}

\* The candidates that have a scope and belong to the home namespace: those
\* that are neither unscoped nor of a foreign namespace.
HomeScoped ==
    {c \in SortComps :
        /\ InList(c, sortInput)
        /\ sattr[c].scope # NoScope
        /\ sattr[c].tns # Foreign}

\* C7: for a candidate list whose dependency graph is acyclic the call
\* returns, and its output holds each scoped home-namespace candidate once
\* and nothing else.
C7_AcyclicEmitsAll ==
    (SortEnded /\ SortAcyclic) =>
        /\ spc = "returned"
        /\ Len(emit_order) = Cardinality(HomeScoped)
        /\ \A c \in HomeScoped : InList(c, emit_order)

\* C8: an unscoped declaration is never emitted and never blocks another
\* candidate: when the call ends, a scoped home-namespace candidate whose
\* counted dependencies are all emitted or unscoped has been emitted.
C8_UnscopedNeverBlocks ==
    SortEnded =>
        /\ \A c \in SortComps : sattr[c].scope = NoScope => ~InList(c, emit_order)
        /\ \A c \in HomeScoped :
             (\A dtd \in SortComps :
                 OrderedDependency(c, dtd)
                     => InList(dtd, emit_order) \/ sattr[dtd].scope = NoScope)
             => InList(c, emit_order)

Nodes == {"root", "kid", "third"}
NoNode == "None"
NoContext == 0

\* An attribute that the node does not carry, and the empty attribute value.
NoAttr == "absent"
Empty == ""

\* What a node's xmlns, xmlns:p and targetNamespace attributes may be.
DefaultDecls == {NoAttr, Empty, "urn:a"}
PrefixDecls == {NoAttr, Empty, "urn:a", "urn:b"}
TargetDecls == {NoAttr, Empty, "urn:a"}
NodeAttrs == [xmlns : DefaultDecls, xmlns_p : PrefixDecls, targetNamespace : TargetDecls]
NoAttrs == [xmlns |-> NoAttr, xmlns_p |-> NoAttr, targetNamespace |-> NoAttr]

\* The keys of a prefix dictionary: None for the default namespace, the
\* prefix the document declares, and the prefixes of the undeclared
\* namespaces. A key whose value is NoInstance is not in the dictionary.
DefaultKey == "None"
MapKeys == {DefaultKey, "p", "xsi", "xml"}

\* The in_scope_namespaces argument: None, or a dictionary.
NoMapping == "None"
SomeMapping == "dict"

\* self.__inScopeNamespaces when it is None; _UndeclaredNamespaceMap is the
\* first dictionary. NoDict: the contents of no dictionary.
NoDict == [k \in {"None"} |-> "None"]
NoMap == 0
UndeclaredMapID == 1

\* _UndeclaredNamespaceMap: boundPrefix -> namespace, for the predefined
\* namespaces that are undeclared.
UndeclaredNamespaceMap ==
    [k \in MapKeys |->
        IF \E i \in 1..NumPredefined :
               PredefinedInstances[i].isUndeclared /\ PredefinedInstances[i].boundPrefix = k
        THEN CHOOSE i \in 1..NumPredefined :
               PredefinedInstances[i].isUndeclared /\ PredefinedInstances[i].boundPrefix = k
        ELSE NoInstance]

\* childNodes of a node, in document order.
ChildNodes(node, third_parent) ==
    IF node = "root"
    THEN IF third_parent = "root" THEN <<"kid", "third">> ELSE <<"kid">>
    ELSE IF node = "kid" /\ third_parent = "kid" THEN <<"third">>
    ELSE << >>

\* No interpretQName call has been made.
NoQNameCall ==
    [ctx |-> NoContext, name |-> << >>, is_definition |-> FALSE,
     namespace |-> NoInstance, local_name |-> << >>, raised |-> "none"]

\* No document is being processed.
ContextIdle ==
    /\ domAttrs = [n \in Nodes |-> NoAttrs]
    /\ thirdParent = "root"
    /\ nsmaps = <<UndeclaredNamespaceMap>>
    /\ contexts = << >>
    /\ nodeContext = [n \in Nodes |-> NoContext]
    /\ ctxRaised = "none"
    /\ qname = NoQNameCall

\* What a constructor call works on: the document, the registry, the
\* dictionaries, the contexts, and the exception that ended the call.
CallState(doc, third_parent) ==
    [dom |-> doc, thirdParent |-> third_parent,
     reg |-> Registry, insts |-> instances, absID |-> absentNamespaceID,
     maps |-> nsmaps, ctxs |-> contexts, nctx |-> nodeContext, raised |-> "none"]

\* NamespaceForURI(uri, create_if_missing=True) inside the constructor.
NamespaceForURI_create(st, uri) ==
    IF st.reg[uri] = NoInstance
    THEN LET n == Namespace_new(st.reg, st.insts, uri)
             i == Namespace_init(n.insts, n.inst, NoPrefix)
         IN [st |-> [st EXCEPT !.reg = n.reg, !.insts = i.insts], inst |-> n.inst]
    ELSE [st |-> st, inst |-> st.reg[uri]]

\* CreateAbsentNamespace() inside the constructor.
CreateAbsent(st) ==
    LET n == Namespace_new(st.reg, st.insts, NoURI)
        i == Namespace_init(n.insts, n.inst, NoPrefix)
    IN [st |-> [st EXCEPT !.reg = n.reg,
                          !.insts = [i.insts EXCEPT ![n.inst].absentID = st.absID],
                          !.absID = st.absID + 1],
        inst |-> n.inst]

\* The object the constructor starts from: the arguments, an empty attribute
\* map, the global dictionary held by reference; the node points to it.
\* node, decl and parent are history: the node the context was made for,
\* the attributes it had, and the parent_context argument; mapAtEnd and
\* defaultAtEnd are history too (see AtEnd).
NewContext(st, dom_node, parent_context, default_namespace, target_namespace) ==
    LET self == Len(st.ctxs) + 1
    IN [st EXCEPT
          !.ctxs = Append(st.ctxs,
                      [node |-> dom_node,
                       decl |-> IF dom_node = NoNode THEN NoAttrs ELSE st.dom[dom_node],
                       parent |-> parent_context,
                       defaultNamespace |-> default_namespace,
                       targetNamespace |-> target_namespace,
                       attributeMap |-> NoAttr,
                       inScopeNamespaces |-> UndeclaredMapID,
                       mutable |-> FALSE,
                       built |-> FALSE,
                       mapAtEnd |-> NoDict,
                       defaultAtEnd |-> NoInstance]),
          !.nctx = IF dom_node = NoNode THEN st.nctx
                   ELSE [st.nctx EXCEPT ![dom_node] = self]]

\* in_scope_namespaces is given: the result of dict.update, which is None,
\* becomes the dictionary.
UseGiven(st, self, in_scope_namespaces) ==
    IF in_scope_namespaces = NoMapping
    THEN st
    ELSE [st EXCEPT !.ctxs[self].inScopeNamespaces = NoMap,
                    !.ctxs[self].mutable = TRUE]

\* parent_context is given, in a variant that leaves the default namespace
\* alone.
Inherit_KeepsOwnDefault(st, self, parent_context) ==
    IF parent_context = NoContext
    THEN st
    ELSE [st EXCEPT
            !.ctxs[self].inScopeNamespaces = st.ctxs[parent_context].inScopeNamespaces,
            !.ctxs[self].mutable = FALSE,
            !.ctxs[self].targetNamespace = st.ctxs[parent_context].targetNamespace]

\* parent_context is given, in a variant that leaves the target namespace
\* alone.
Inherit_KeepsOwnTarget(st, self, parent_context) ==
    IF parent_context = NoContext
    THEN st
    ELSE [st EXCEPT
            !.ctxs[self].inScopeNamespaces = st.ctxs[parent_context].inScopeNamespaces,
            !.ctxs[self].mutable = FALSE,
            !.ctxs[self].defaultNamespace = st.ctxs[parent_context].defaultNamespace]

\* parent_context is given: its dictionary (by reference), its default and
\* its target namespace are taken over.
Inherit(st, self, parent_context) ==
    IF parent_context = NoContext
    THEN st
    ELSE [st EXCEPT
            !.ctxs[self].inScopeNamespaces = st.ctxs[parent_context].inScopeNamespaces,
            !.ctxs[self].mutable = FALSE,
            !.ctxs[self].defaultNamespace = st.ctxs[parent_context].defaultNamespace,
            !.ctxs[self].targetNamespace = st.ctxs[parent_context].targetNamespace]

\* The first namespace declaration of a node marks the dictionary held by
\* reference as its own, without copying it.
CopyOnWrite_InPlace(st, self) ==
    IF st.ctxs[self].mutable
    THEN st
    ELSE IF st.ctxs[self].inScopeNamespaces = NoMap
    THEN [st EXCEPT !.raised = "AttributeError"]
    ELSE [st EXCEPT !.ctxs[self].mutable = TRUE]

\* The first namespace declaration of a node replaces a dictionary held by
\* reference by a copy of it. None has no copy method.
CopyOnWrite(st, self) ==
    IF st.ctxs[self].mutable
    THEN st
    ELSE IF st.ctxs[self].inScopeNamespaces = NoMap
    THEN [st EXCEPT !.raised = "AttributeError"]
    ELSE [st EXCEPT !.maps = Append(st.maps, st.maps[st.ctxs[self].inScopeNamespaces]),
                    !.ctxs[self].inScopeNamespaces = Len(st.maps) + 1,
                    !.ctxs[self].mutable = TRUE]

\* self.__inScopeNamespaces[key] = inst
SetItem(st, self, key, inst) ==
    IF st.ctxs[self].inScopeNamespaces = NoMap
    THEN [st EXCEPT !.raised = "TypeError"]
    ELSE [st EXCEPT !.maps[st.ctxs[self].inScopeNamespaces][key] = inst]

\* A pop that removes nothing.
PopItem_KeepsEntry(st, self, key) ==
    IF st.ctxs[self].inScopeNamespaces = NoMap
    THEN [st EXCEPT !.raised = "AttributeError"]
    ELSE st

\* self.__inScopeNamespaces.pop(key, None)
PopItem(st, self, key) ==
    IF st.ctxs[self].inScopeNamespaces = NoMap
    THEN [st EXCEPT !.raised = "AttributeError"]
    ELSE [st EXCEPT !.maps[st.ctxs[self].inScopeNamespaces][key] = NoInstance]

\* The attribute xmlns="value".
DeclareDefault(st, self, value) ==
    IF value = NoAttr \/ st.raised # "none"
    THEN st
    ELSE LET s1 == CopyOnWrite(st, self)
         IN IF s1.raised # "none"
            THEN s1
            ELSE IF value # Empty
            THEN LET f == NamespaceForURI_create(s1, value)
                 IN SetItem([f.st EXCEPT !.ctxs[self].defaultNamespace = f.inst],
                            self, DefaultKey, f.inst)
            ELSE PopItem([s1 EXCEPT !.ctxs[self].defaultNamespace = NoInstance],
                         self, DefaultKey)

\* The attribute xmlns:pfx="value".
DeclarePrefix(st, self, pfx, value) ==
    IF value = NoAttr \/ st.raised # "none"
    THEN st
    ELSE LET s1 == CopyOnWrite(st, self)
         IN IF s1.raised # "none"
            THEN s1
            ELSE IF value # Empty
            THEN LET f == NamespaceForURI_create(s1, value)
                 IN SetItem(f.st, self, pfx, f.inst)
            ELSE PopItem(s1, self, pfx)

\* An attribute outside the xmlns namespace goes to the attribute map; the
\* document's only one is targetNamespace.
RecordAttribute(st, self, value) ==
    IF value = NoAttr \/ st.raised # "none"
    THEN st
    ELSE [st EXCEPT !.ctxs[self].attributeMap = value]

\* The loop over dom_node.attributes: xmlns, xmlns:p, targetNamespace. The
\* three touch different entries, so their order matters only to which of
\* two failing declarations fails.
ReadAttributes(st, self, dom_node) ==
    IF dom_node = NoNode
    THEN st
    ELSE RecordAttribute(
             DeclarePrefix(
                 DeclareDefault(st, self, st.dom[dom_node].xmlns),
                 self, "p", st.dom[dom_node].xmlns_p),
             self, st.dom[dom_node].targetNamespace)

\* The target namespace: that of the targetNamespace attribute, which is
\* asserted not to be empty; else the
\* one taken over; else a new absent namespace, which is also the default
\* namespace when there is none.
SetTargetNamespace(st, self) ==
    IF st.raised # "none"
    THEN st
    ELSE LET tns_uri == st.ctxs[self].attributeMap
         IN IF tns_uri = Empty
            THEN [st EXCEPT !.raised = "AssertionError"]
            ELSE IF tns_uri # NoAttr
            THEN LET f == NamespaceForURI_create(st, tns_uri)
                 IN [f.st EXCEPT !.ctxs[self].targetNamespace = f.inst,
                                 !.ctxs[self].built = TRUE]
            ELSE IF st.ctxs[self].targetNamespace = NoInstance
            THEN LET f == CreateAbsent(st)
                 IN [f.st EXCEPT
                       !.ctxs[self].targetNamespace = f.inst,
                       !.ctxs[self].defaultNamespace =
                           IF @ = NoInstance THEN f.inst ELSE @,
                       !.ctxs[self].built = TRUE]
            ELSE [st EXCEPT !.ctxs[self].built = TRUE]

\* History: the contents of the dictionary and the default namespace the
\* context has when its own fields are complete, before the child elements
\* are visited.
AtEnd(st, self) ==
    IF ~st.ctxs[self].built
    THEN st
    ELSE [st EXCEPT
            !.ctxs[self].mapAtEnd =
                IF st.ctxs[self].inScopeNamespaces = NoMap
                THEN NoDict
                ELSE st.maps[st.ctxs[self].inScopeNamespaces],
            !.ctxs[self].defaultAtEnd = st.ctxs[self].defaultNamespace]

\* NamespaceContext.__init__, with the contexts of the child elements when
\* recurse is set: the call state it leaves.
RECURSIVE NamespaceContext_init(_, _, _, _, _, _, _)
RECURSIVE InitChildren(_, _, _)
NamespaceContext_init(st, dom_node, parent_context, recurse, default_namespace, target_namespace, in_scope_namespaces) ==
    LET self == Len(st.ctxs) + 1
        s0 == NewContext(st, dom_node, parent_context, default_namespace, target_namespace)
        s1 == UseGiven(s0, self, in_scope_namespaces)
        s2 == Inherit(s1, self, parent_context)
        s3 == ReadAttributes(s2, self, dom_node)
        s4 == AtEnd(SetTargetNamespace(s3, self), self)
    IN IF recurse /\ dom_node # NoNode
       THEN InitChildren(s4, ChildNodes(dom_node, st.thirdParent), self)
       ELSE s4

\* for cn in dom_node.childNodes: NamespaceContext(cn, self, True)
InitChildren(st, kids, self) ==
    IF kids = << >> \/ st.raised # "none"
    THEN st
    ELSE InitChildren(
             NamespaceContext_init(st, Head(kids), self, TRUE,
                                   NoInstance, NoInstance, NoMapping),
             Tail(kids), self)

\* The state a constructor call leaves behind.
Becomes(st) ==
    /\ Registry' = st.reg
    /\ instances' = st.insts
    /\ absentNamespaceID' = st.absID
    /\ nsmaps' = st.maps
    /\ contexts' = st.ctxs
    /\ nodeContext' = st.nctx
    /\ ctxRaised' = st.raised
    /\ domAttrs' = st.dom
    /\ thirdParent' = st.thirdParent
    /\ UNCHANGED qname
    /\ UNCHANGED <<returned, returnedCount, absentReturned, lastCall>>
    /\ UNCHANGED <<resVars, sortVars, nsVars>>

\* NamespaceContext(root, parent_context) for the root of a parsed
\* document: the contexts of the document.
BuildDocument(parent_context) ==
    /\ nodeContext["root"] = NoContext
    /\ Len(contexts) <= MaxExtra
    /\ \E doc \in [Nodes -> NodeAttrs], third_parent \in {"root", "kid"} :
          Becomes(NamespaceContext_init(CallState(doc, third_parent), "root",
                                        parent_context, TRUE,
                                        NoInstance, NoInstance, NoMapping))

\* NamespaceContext(None, parent_context): a context without a node.
DeriveContext(parent_context) ==
    /\ Len(contexts) < MaxExtra
    /\ Becomes(NamespaceContext_init(CallState(domAttrs, thirdParent), NoNode,
                                     parent_context, TRUE,
                                     NoInstance, NoInstance, NoMapping))

\* NamespaceContext(None, target_namespace=ns, default_namespace=ns,
\* in_scope_namespaces={...}): the initial context of a namespace.
InitialContext(ns) ==
    /\ Len(contexts) < MaxExtra
    /\ Becomes(NamespaceContext_init(CallState(domAttrs, thirdParent), NoNode,
                                     NoContext, TRUE,
                                     ns, ns, SomeMapping))

ContextNext ==
    \/ \E pc \in {NoContext} \cup (1..Len(contexts)) : BuildDocument(pc)
    \/ \E pc \in {NoContext} \cup (1..Len(contexts)) : DeriveContext(pc)
    \/ \E ns \in {Registry[XS_URI]} : InitialContext(ns)

\* NamespaceContext(root, parent_context, recurse=False) for an element
\* whose children are left alone.
BuildElement(parent_context) ==
    /\ nodeContext["root"] = NoContext
    /\ Len(contexts) <= MaxExtra
    /\ \E attrs \in NodeAttrs :
          Becomes(NamespaceContext_init(
                      CallState([n \in Nodes |-> IF n = "root" THEN attrs ELSE NoAttrs],
                                thirdParent),
                      "root", parent_context, FALSE,
                      NoInstance, NoInstance, NoMapping))

(***************************************************************************)
(* NamespaceContext.interpretQName                                         *)
(***************************************************************************)
\* Names, as the sequence of their pieces: a piece is a colon or a run of
\* other characters.
Names ==
    { <<"elt">>,
      <<"p", ":", "elt">>,
      <<"q", ":", "elt">>,
      <<"xml", ":", "lang">>,
      <<"p", ":", "a", ":", "b">>,
      <<":", "elt">> }

\* name.find(':'): the position of the first colon, 0 when there is none.
FindColon(name) ==
    IF \E k \in 1..Len(name) : name[k] = ":"
    THEN CHOOSE k \in 1..Len(name) :
             name[k] = ":" /\ \A j \in 1..(k - 1) : name[j] # ":"
    ELSE 0

\* dict.get(prefix, None): the keys of a dictionary other than None are
\* strings of one piece.
DictGet(map, prefix) ==
    IF Len(prefix) = 1 /\ prefix[1] \in MapKeys \ {DefaultKey}
    THEN map[prefix[1]]
    ELSE NoInstance

\* interpretQName in a variant that resolves an unprefixed name against the
\* default namespace whatever is_definition says.
interpretQName_AlwaysDefault(c, name, is_definition) ==
    LET k == FindColon(name)
        call == [ctx |-> c, name |-> name, is_definition |-> is_definition,
                 namespace |-> NoInstance, local_name |-> << >>, raised |-> "none"]
    IN IF k > 0
       THEN IF is_definition
            THEN [call EXCEPT !.raised = "AssertionError"]
            ELSE IF contexts[c].inScopeNamespaces = NoMap
            THEN [call EXCEPT !.raised = "AttributeError"]
            ELSE LET prefix == SubSeq(name, 1, k - 1)
                     namespace == DictGet(nsmaps[contexts[c].inScopeNamespaces], prefix)
                 IN IF namespace = NoInstance
                    THEN [call EXCEPT !.raised = "SchemaValidationError"]
                    ELSE [call EXCEPT !.namespace = namespace,
                                      !.local_name = SubSeq(name, k + 1, Len(name))]
       ELSE [call EXCEPT !.namespace = contexts[c].defaultNamespace,
                         !.local_name = name]

\* interpretQName(self, name, is_definition): the call and its outcome.
interpretQName(c, name, is_definition) ==
    LET k == FindColon(name)
        call == [ctx |-> c, name |-> name, is_definition |-> is_definition,
                 namespace |-> NoInstance, local_name |-> << >>, raised |-> "none"]
    IN IF k > 0
       THEN IF is_definition
            THEN [call EXCEPT !.raised = "AssertionError"]
            ELSE IF contexts[c].inScopeNamespaces = NoMap
            THEN [call EXCEPT !.raised = "AttributeError"]
            ELSE LET prefix == SubSeq(name, 1, k - 1)
                     namespace == DictGet(nsmaps[contexts[c].inScopeNamespaces], prefix)
                 IN IF namespace = NoInstance
                    THEN [call EXCEPT !.raised = "SchemaValidationError"]
                    ELSE [call EXCEPT !.namespace = namespace,
                                      !.local_name = SubSeq(name, k + 1, Len(name))]
       ELSE [call EXCEPT !.namespace = IF is_definition
                                       THEN contexts[c].targetNamespace
                                       ELSE contexts[c].defaultNamespace,
                         !.local_name = name]

\* A context user code can reach: one a constructor returned, or the one a
\* node points to.
Reachable(c) ==
    \/ contexts[c].built
    \/ \E n \in Nodes : nodeContext[n] = c

\* ctx.interpretQName(name, is_definition)
CallInterpretQName(c, name, is_definition) ==
    /\ Reachable(c)
    /\ qname' = interpretQName(c, name, is_definition)
    /\ UNCHANGED <<domAttrs, thirdParent, nsmaps, contexts, nodeContext, ctxRaised>>
    /\ UNCHANGED <<regVars, resVars, sortVars, nsVars>>

QNameNext ==
    \/ \E pc \in {NoContext} \cup (1..Len(contexts)) : BuildElement(pc)
    \/ \E pc \in {NoContext} \cup (1..Len(contexts)) : DeriveContext(pc)
    \/ \E ns \in {Registry[XS_URI]} : InitialContext(ns)
    \/ \E c \in 1..Len(contexts), name \in Names, d \in BOOLEAN :
          CallInterpretQName(c, name, d)

\* A document built on its own, and unprefixed names looked up at its nodes.
TreeNext ==
    \/ BuildDocument(NoContext)
    \/ \E c \in 1..Len(contexts), d \in BOOLEAN :
          CallInterpretQName(c, <<"elt">>, d)

\* A document built on its own, and references looked up at its nodes: a
\* name with the prefix the document's nodes declare, and one without.
ScopeNext ==
    \/ BuildDocument(NoContext)
    \/ \E c \in 1..Len(contexts), name \in {<<"p", ":", "elt">>, <<"elt">>} :
          CallInterpretQName(c, name, FALSE)

(***************************************************************************)
(* Claims about NamespaceContext                                           *)
(***************************************************************************)
\* inScopeNamespaces() of a context whose dictionary is not None.
InScope(c) == nsmaps[contexts[c].inScopeNamespaces]

\* The context p has the namespace urn:a as its default namespace, and the
\* context c was constructed with p as parent_context for a node whose only
\* namespace declaration is xmlns:p="urn:b"; both constructors came to
\* their end.
ChildDeclaresPrefix(p, c) ==
    /\ contexts[c].parent = p
    /\ contexts[p].built
    /\ contexts[c].built
    /\ contexts[p].defaultNamespace # NoInstance
    /\ instances[contexts[p].defaultNamespace].uri = "urn:a"
    /\ contexts[c].decl.xmlns = NoAttr
    /\ contexts[c].decl.xmlns_p = "urn:b"

\* C10: when a context has the default namespace urn:a and a child node
\* declares only the prefix p, bound to urn:b, the child's context has the
\* parent's default namespace, urn:a, and its in-scope dictionary is the
\* parent's with p bound to the namespace urn:b.
C10_ChildInherits ==
    \A p, c \in 1..Len(contexts) :
        ChildDeclaresPrefix(p, c) =>
            /\ contexts[c].defaultNamespace = contexts[p].defaultNamespace
            /\ contexts[p].inScopeNamespaces # NoMap
            /\ contexts[c].inScopeNamespaces # NoMap
            /\ Registry["urn:b"] # NoInstance
            /\ instances[Registry["urn:b"]].uri = "urn:b"
            /\ InScope(c) = [InScope(p) EXCEPT !["p"] = Registry["urn:b"]]

\* A node declares xmlns="urn:a", its child declares only xmlns:p="urn:b",
\* and the child's dictionary differs from the parent's.
C10_Witness ==
    \E p, c \in 1..Len(contexts) :
        /\ ChildDeclaresPrefix(p, c)
        /\ contexts[p].decl.xmlns = "urn:a"
        /\ InScope(c) # InScope(p)
        /\ InScope(p)[DefaultKey] = Registry["urn:a"]

\* A dictionary after the namespace declarations decl of a node.
WithDeclarations(map, decl) ==
    LET m1 == IF decl.xmlns = NoAttr THEN map
              ELSE IF decl.xmlns = Empty THEN [map EXCEPT ![DefaultKey] = NoInstance]
              ELSE [map EXCEPT ![DefaultKey] = Registry[decl.xmlns]]
    IN IF decl.xmlns_p = NoAttr THEN m1
       ELSE IF decl.xmlns_p = Empty THEN [m1 EXCEPT !["p"] = NoInstance]
       ELSE [m1 EXCEPT !["p"] = Registry[decl.xmlns_p]]

DeclaresNothing(decl) == decl.xmlns = NoAttr /\ decl.xmlns_p = NoAttr

\* The contents of the dictionary of a context now (NoDict for None).
DictNow(c) ==
    IF contexts[c].inScopeNamespaces = NoMap
    THEN NoDict
    ELSE nsmaps[contexts[c].inScopeNamespaces]

\* C11: the declarations of a node change only the node's own dictionary
\* and default namespace. Every context still has the dictionary contents
\* and the default namespace it had when its constructor finished its own
\* fields, whatever its descendants and the siblings visited later
\* declared; the global dictionary holds the undeclared namespaces and
\* nothing else; a child that declares nothing holds its parent's
\* dictionary by reference, and one that declares something holds the
\* parent's contents with its own declarations applied.
C11_DeclarationsAreLocal ==
    /\ nsmaps[UndeclaredMapID] = UndeclaredNamespaceMap
    /\ \A c \in 1..Len(contexts) :
         contexts[c].built =>
            /\ DictNow(c) = contexts[c].mapAtEnd
            /\ contexts[c].defaultNamespace = contexts[c].defaultAtEnd
    /\ \A p, c \in 1..Len(contexts) :
         (contexts[c].parent = p /\ contexts[p].built /\ contexts[c].built) =>
            IF DeclaresNothing(contexts[c].decl)
            THEN /\ contexts[c].inScopeNamespaces = contexts[p].inScopeNamespaces
                 /\ contexts[c].defaultNamespace = contexts[p].defaultNamespace
            ELSE /\ contexts[p].mapAtEnd # NoDict
                 /\ DictNow(c) = WithDeclarations(contexts[p].mapAtEnd, contexts[c].decl)

\* Two children of the root both declare the prefix, to different
\* namespaces, under a root that declared a default namespace.
C11_Witness ==
    \E p, c, d \in 1..Len(contexts) :
        /\ c # d
        /\ contexts[c].parent = p /\ contexts[d].parent = p
        /\ contexts[p].built /\ contexts[c].built /\ contexts[d].built
        /\ contexts[p].decl.xmlns = "urn:a"
        /\ contexts[c].decl.xmlns_p = "urn:a"
        /\ contexts[d].decl.xmlns_p = "urn:b"
        /\ DictNow(p)["p"] = NoInstance

(***************************************************************************)
(* Claims about interpretQName                                             *)
(***************************************************************************)
QNameCalled == qname.ctx # NoContext

\* The last call was made with a prefixed name used as a reference.
PrefixedReference ==
    /\ QNameCalled
    /\ FindColon(qname.name) > 0
    /\ ~qname.is_definition

\* The part of the name before its first colon is a prefix that the
\* dictionary of the context binds.
PrefixBound ==
    LET c == qname.ctx
        k == FindColon(qname.name)
    IN /\ contexts[c].inScopeNamespaces # NoMap
       /\ k = 2
       /\ qname.name[1] \in MapKeys \ {DefaultKey}
       /\ nsmaps[contexts[c].inScopeNamespaces][qname.name[1]] # NoInstance

\* C12: interpretQName on a prefixed name returns the namespace the
\* context's in-scope dictionary binds the prefix to, together with the
\* part after the first colon; when the dictionary binds the prefix to
\* nothing the call raises SchemaValidationError and returns nothing.
C12_PrefixedLookup ==
    PrefixedReference =>
        IF PrefixBound
        THEN /\ qname.raised = "none"
             /\ qname.namespace =
                    nsmaps[contexts[qname.ctx].inScopeNamespaces][qname.name[1]]
             /\ qname.local_name = SubSeq(qname.name, 3, Len(qname.name))
        ELSE /\ qname.raised = "SchemaValidationError"
             /\ qname.namespace = NoInstance

\* C13: interpretQName on an unprefixed name returns the name with the
\* context's target namespace when is_definition is set and with the
\* context's default namespace, which may be none, when it is not.
C13_UnprefixedLookup ==
    (QNameCalled /\ FindColon(qname.name) = 0) =>
        /\ qname.raised = "none"
        /\ qname.local_name = qname.name
        /\ qname.namespace = IF qname.is_definition
                             THEN contexts[qname.ctx].targetNamespace
                             ELSE contexts[qname.ctx].defaultNamespace

\* An unprefixed definition was looked up in a context that has a target
\* namespace, no default namespace, and was given the target namespace.
C13_Witness ==
    /\ QNameCalled
    /\ FindColon(qname.name) = 0
    /\ qname.is_definition
    /\ contexts[qname.ctx].built
    /\ contexts[qname.ctx].defaultNamespace = NoInstance
    /\ contexts[qname.ctx].targetNamespace # NoInstance
    /\ qname.namespace = contexts[qname.ctx].targetNamespace

\* The context c was constructed without a node and without a parent
\* context, with an in_scope_namespaces dictionary: only that argument
\* makes the dictionary of a context without attributes mutable.
GivenInScopeNamespaces(c) ==
    /\ contexts[c].built
    /\ contexts[c].node = NoNode
    /\ contexts[c].parent = NoContext
    /\ contexts[c].mutable

\* C35: a context constructed without a parent context and with an
\* in_scope_namespaces dictionary has an in-scope dictionary that binds
\* every always-available prefix (xml, xsi) to its namespace, and a
\* reference whose prefix is one of those resolves through interpretQName
\* to that namespace.
C35_GivenDictionaryInScope ==
    /\ \A c \in 1..Len(contexts) :
          GivenInScopeNamespaces(c) =>
             /\ contexts[c].inScopeNamespaces # NoMap
             /\ \A k \in {"xml", "xsi"} :
                   /\ UndeclaredNamespaceMap[k] # NoInstance
                   /\ InScope(c)[k] = UndeclaredNamespaceMap[k]
    /\ (/\ PrefixedReference
        /\ GivenInScopeNamespaces(qname.ctx)
        /\ qname.name[1] \in {"xml", "xsi"}) =>
           /\ qname.raised = "none"
           /\ qname.namespace = UndeclaredNamespaceMap[qname.name[1]]

(***************************************************************************)
(* Claims about the target namespace of a context                          *)
(***************************************************************************)
\* The context c was built for a node that carries a targetNamespace
\* attribute.
HasTargetAttribute(c) ==
    /\ contexts[c].built
    /\ contexts[c].decl.targetNamespace \notin {NoAttr, Empty}

\* No default namespace is established for the node of c otherwise: it
\* declares none and inherits none.
NoDefaultOtherwise(c) ==
    /\ contexts[c].decl.xmlns = NoAttr
    /\ \/ contexts[c].parent = NoContext
       \/ contexts[contexts[c].parent].defaultNamespace = NoInstance

\* C14: the context of a node with a targetNamespace attribute has the
\* namespace of that URI as target namespace, and also as default
\* namespace when the node neither declares nor inherits a default
\* namespace.
C14_TargetAttribute ==
    \A c \in 1..Len(contexts) :
        HasTargetAttribute(c) =>
            /\ contexts[c].targetNamespace = Registry[contexts[c].decl.targetNamespace]
            /\ instances[contexts[c].targetNamespace].uri = contexts[c].decl.targetNamespace
            /\ NoDefaultOtherwise(c) =>
                   contexts[c].defaultNamespace = contexts[c].targetNamespace

(***************************************************************************)
(* Claims about documents without a target namespace                       *)
(***************************************************************************)
\* The contexts of the document have been built from its root, without a
\* parent context, and the constructor returned.
TreeBuilt ==
    /\ nodeContext["root"] # NoContext
    /\ contexts[nodeContext["root"]].parent = NoContext
    /\ ctxRaised = "none"

\* The absent namespaces there are.
AbsentNamespaces == {i \in 1..Len(instances) : instances[i].uri = NoURI}

\* Exactly one absent namespace exists, every node has a context, and the
\* last lookup of an unprefixed name, reference or definition, gave that
\* namespace.
OneAbsentNamespaceForAll ==
    /\ Cardinality(AbsentNamespaces) = 1
    /\ \A n \in Nodes :
         /\ nodeContext[n] # NoContext
         /\ contexts[nodeContext[n]].built
    /\ (QNameCalled /\ FindColon(qname.name) = 0) =>
           /\ qname.raised = "none"
           /\ qname.namespace \in AbsentNamespaces

\* C15, as claimed: when the root declares neither a targetNamespace nor a
\* default namespace, one absent namespace is created for the tree and
\* unprefixed names resolve to it at every node.
C15_RootWithoutNamespaces ==
    (/\ TreeBuilt
     /\ domAttrs["root"].targetNamespace = NoAttr
     /\ domAttrs["root"].xmlns = NoAttr)
    => OneAbsentNamespaceForAll

\* C15, amended: when no element of the document carries a targetNamespace
\* or an xmlns attribute, one absent namespace is created for the tree and
\* unprefixed names resolve to it at every node.
C15_DocumentWithoutNamespaces ==
    (/\ TreeBuilt
     /\ \A n \in Nodes : /\ domAttrs[n].targetNamespace = NoAttr
                          /\ domAttrs[n].xmlns = NoAttr)
    => OneAbsentNamespaceForAll

\* An unprefixed reference was looked up at the third element, below the
\* root's child, in a document without targetNamespace and xmlns attributes
\* in which the child declares a prefix.
C15_Witness ==
    /\ TreeBuilt
    /\ \A n \in Nodes : /\ domAttrs[n].targetNamespace = NoAttr
                         /\ domAttrs[n].xmlns = NoAttr
    /\ thirdParent = "kid"
    /\ domAttrs["kid"].xmlns_p = "urn:b"
    /\ QNameCalled
    /\ qname.ctx = nodeContext["third"]
    /\ ~qname.is_definition
    /\ qname.namespace \in AbsentNamespaces

(***************************************************************************)
(* Claims about declarations with an empty value                           *)
(***************************************************************************)
\* The xmlns:p declaration in force at the node of the context c: its own,
\* or that of the nearest ancestor that has one; NoAttr when there is none.
RECURSIVE PrefixDeclInForce(_)
PrefixDeclInForce(c) ==
    IF contexts[c].decl.xmlns_p # NoAttr
    THEN contexts[c].decl.xmlns_p
    ELSE IF contexts[c].parent = NoContext
    THEN NoAttr
    ELSE PrefixDeclInForce(contexts[c].parent)

\* The last call looked up the reference p:elt in a finished context.
PrefixLookedUp ==
    /\ QNameCalled
    /\ qname.name = <<"p", ":", "elt">>
    /\ ~qname.is_definition
    /\ contexts[qname.ctx].built

\* The context c has a child context whose node declares xmlns:p="".
ChildClearsPrefix(c) ==
    \E d \in 1..Len(contexts) :
        /\ contexts[d].parent = c
        /\ contexts[d].built
        /\ contexts[d].decl.xmlns_p = Empty

\* After xmlns:p="" on a node a reference with the prefix p raises
\* SchemaValidationError at that node and at the descendants that do not
\* declare p again, and at the parent of that node, where p is declared, it
\* still gives the namespace declared there.
PrefixClearedBelowOnly ==
    PrefixLookedUp =>
        /\ PrefixDeclInForce(qname.ctx) = Empty =>
               /\ qname.raised = "SchemaValidationError"
               /\ qname.namespace = NoInstance
        /\ (/\ ChildClearsPrefix(qname.ctx)
            /\ PrefixDeclInForce(qname.ctx) \notin {NoAttr, Empty}) =>
               /\ qname.raised = "none"
               /\ qname.namespace = Registry[PrefixDeclInForce(qname.ctx)]
               /\ instances[qname.namespace].uri = PrefixDeclInForce(qname.ctx)

\* The context c was built for a node that declares xmlns="".
ClearsDefault(c) ==
    /\ contexts[c].built
    /\ contexts[c].decl.xmlns = Empty

\* The node of c has no targetNamespace attribute and takes no target
\* namespace over from a parent context.
NoTargetOtherwise(c) ==
    /\ contexts[c].decl.targetNamespace = NoAttr
    /\ \/ contexts[c].parent = NoContext
       \/ contexts[contexts[c].parent].targetNamespace = NoInstance

\* C34 as stated: an empty declaration clears the binding for the node and
\* its descendants only. After xmlns:p="" a reference with the prefix p
\* raises SchemaValidationError at the node and at the descendants that do
\* not declare p again, and still resolves at the parent; after xmlns=""
\* the node's default namespace is None and its dictionary has no entry
\* for the default namespace.
C34_EmptyDeclarationClears ==
    /\ PrefixClearedBelowOnly
    /\ \A c \in 1..Len(contexts) :
          ClearsDefault(c) =>
             /\ contexts[c].inScopeNamespaces # NoMap
             /\ InScope(c)[DefaultKey] = NoInstance
             /\ contexts[c].defaultNamespace = NoInstance

\* C34 as amended: as above for the prefix and for the dictionary; after
\* xmlns="" the default namespace of the node is None when the node has a
\* target namespace, its own or one taken over, and otherwise it is the
\* absent namespace the constructor creates as the node's target namespace.
\* An unprefixed reference at the node resolves accordingly.
C34_EmptyDeclarationClearsBinding ==
    /\ PrefixClearedBelowOnly
    /\ \A c \in 1..Len(contexts) :
          ClearsDefault(c) =>
             /\ contexts[c].inScopeNamespaces # NoMap
             /\ InScope(c)[DefaultKey] = NoInstance
             /\ IF NoTargetOtherwise(c)
                THEN /\ contexts[c].defaultNamespace = contexts[c].targetNamespace
                     /\ contexts[c].defaultNamespace \in AbsentNamespaces
                ELSE contexts[c].defaultNamespace = NoInstance
    /\ (/\ QNameCalled
        /\ qname.name = <<"elt">>
        /\ ClearsDefault(qname.ctx)
        /\ ~NoTargetOtherwise(qname.ctx)) =>
           /\ qname.raised = "none"
           /\ qname.namespace = NoInstance

\* The root declares xmlns="urn:a" and xmlns:p="urn:b", its child clears
\* both, and the child's child declares nothing: the reference p:elt was
\* looked up there and raised, the child's dictionary has neither entry,
\* and the root's dictionary still has both.
C34_Witness ==
    /\ TreeBuilt
    /\ thirdParent = "kid"
    /\ domAttrs["root"].xmlns = "urn:a"
    /\ domAttrs["root"].xmlns_p = "urn:b"
    /\ domAttrs["kid"].xmlns = Empty
    /\ domAttrs["kid"].xmlns_p = Empty
    /\ DeclaresNothing(domAttrs["third"])
    /\ nodeContext["third"] # NoContext
    /\ contexts[nodeContext["third"]].built
    /\ PrefixLookedUp
    /\ qname.ctx = nodeContext["third"]
    /\ qname.raised = "SchemaValidationError"
    /\ contexts[nodeContext["kid"]].defaultNamespace = NoInstance
    /\ InScope(nodeContext["kid"])["p"] = NoInstance
    /\ InScope(nodeContext["kid"])[DefaultKey] = NoInstance
    /\ InScope(nodeContext["root"])["p"] = Registry["urn:b"]
    /\ InScope(nodeContext["root"])[DefaultKey] = Registry["urn:a"]

(***************************************************************************)
(* Loading a namespace from a cache file                                   *)
(***************************************************************************)
\* A cache file that a program with another __PICKLE_FORMAT wrote, and the
\* format it wrote.
OldPath == "old"
OldFormat == "200803011200"
AllPaths == Paths \cup {OldPath}

\* What the old cache file holds, for the namespace uri.
OldFile(uri) ==
    << uri, <<OldFormat, uri>>, [c \in {SaveCategory} |-> [n \in {SaveName} |-> "o1"]] >>

\* The cache directory when the program starts: the old file, written for
\* either URI.
InitialFiles == {[p \in {OldPath} |-> OldFile(u)] : u \in {"urn:a", "urn:b"}}

\* No load or validation call was made yet.
NoLoadCall ==
    [op |-> "none", file_path |-> "None", ns |-> NoInstance, held |-> EmptyDict,
     result |-> NoInstance, raised |-> "none", entered |-> FALSE, depth |-> 0]

\* The index was not built, no call is in progress.
LoadIdle ==
    /\ LoadableNamespaces = NoDict
    /\ active = << >>
    /\ loadCall = NoLoadCall

\* The program starts with a cache directory that holds a file.
CacheStart ==
    /\ catCall = NoCatCall
    /\ files \in InitialFiles
    /\ PicklingNamespace = NoInstance
    /\ saveCall = NoSaveCall

\* d.update(e)
DictUpdate(d, e) ==
    [k \in DOMAIN d \cup DOMAIN e |-> IF k \in DOMAIN e THEN e[k] ELSE d[k]]

\* unpickler.load() of a pickled Namespace: __new__ with the URI that
\* __getnewargs__ gave, which registers an instance when the registry has
\* none, and then __setstate__, which raises UnpicklingError when the format
\* is not __PICKLE_FORMAT.  The attributes __setstate__ sets are not part of
\* the model.
UnpickleNamespace(reg, insts, state) ==
    LET n == Namespace_new(reg, insts, state[2])
    IN IF state[1] # PICKLE_FORMAT
       THEN [reg |-> n.reg, insts |-> n.insts, inst |-> NoInstance,
             raised |-> "UnpicklingError"]
       ELSE [reg |-> n.reg, insts |-> n.insts, inst |-> n.inst, raised |-> "none"]

\* _NamespaceCategory_mixin._LoadFromFile(instance, unpickler) without the
\* update of the maps.
MergeCategoryMaps_ConfiguresOnly(inst, new_category_map) ==
    configureCategories(inst, DOMAIN new_category_map)

\* _NamespaceCategory_mixin._LoadFromFile(instance, unpickler): the assertion
\* tests the bound method __checkCategoriesEmpty, not its result, and never
\* fails; the categories of the file are configured and each map is updated
\* with the file's.
MergeCategoryMaps(inst, new_category_map) ==
    LET configured == configureCategories(inst, DOMAIN new_category_map)
    IN [configured EXCEPT !.categoryMap =
           [c \in DOMAIN @ |->
               IF c \in DOMAIN new_category_map
               THEN DictUpdate(@[c], new_category_map[c])
               ELSE @[c]]]

\* The first part of Namespace.LoadFromFile(file_path): the file is opened,
\* the URI and the namespace are read.
ReadIdentity(reg, insts, fs, file_path) ==
    IF file_path \notin DOMAIN fs
    THEN [reg |-> reg, insts |-> insts, inst |-> NoInstance, raised |-> "IOError"]
    ELSE IF Len(fs[file_path]) < 2
    THEN [reg |-> reg, insts |-> insts, inst |-> NoInstance, raised |-> "EOFError"]
    ELSE UnpickleNamespace(reg, insts, fs[file_path][2])

\* The second part: the mix-in reads the category maps and merges them.
ReadCategoryMaps(insts, inst, f) ==
    IF Len(f) < 3
    THEN [insts |-> insts, raised |-> "EOFError"]
    ELSE [insts |-> [insts EXCEPT ![inst] = MergeCategoryMaps(@, f[3])],
          raised |-> "none"]

\* Namespace.LoadFromFile(file_path): opens the file, reads the URI and the
\* namespace, then the category maps; the call chain ends in the mix-in,
\* whose last handler returns None.
loadFromFile(reg, insts, fs, file_path) ==
    LET u == ReadIdentity(reg, insts, fs, file_path)
    IN IF u.raised # "none"
       THEN [reg |-> u.reg, insts |-> u.insts, inst |-> NoInstance,
             result |-> NoInstance, raised |-> u.raised]
       ELSE LET m == ReadCategoryMaps(u.insts, u.inst, fs[file_path])
            IN [reg |-> u.reg, insts |-> m.insts,
                inst |-> IF m.raised = "none" THEN u.inst ELSE NoInstance,
                result |-> NoInstance, raised |-> m.raised]

\* The URI a cache file begins with.
FileURI(f) == IF Len(f) >= 1 THEN f[1] ELSE NoURI
FileURIAt(fs, file_path) ==
    IF file_path \in DOMAIN fs THEN FileURI(fs[file_path]) ELSE NoURI

\* History: the category maps the namespace of a URI holds before a call
\* ({} when the registry has no instance for it).
HeldBy(reg, insts, uri) ==
    IF reg[uri] = NoInstance THEN EmptyDict ELSE insts[reg[uri]].categoryMap

\* Reading the files may allocate: one instance for each URI that is not
\* registered.
CanRead(paths) ==
    Len(instances)
      + Cardinality({FileURI(files[p]) : p \in {q \in paths \cap DOMAIN files :
                                                 Registry[FileURI(files[q])] = NoInstance}})
        <= NumPredefined + MaxNew

\* What a load call leaves alone.
LoadFrame ==
    /\ UNCHANGED <<absentNamespaceID, returned, returnedCount, absentReturned, lastCall>>
    /\ UNCHANGED <<catCall, files, PicklingNamespace, saveCall>>
    /\ UNCHANGED <<resVars, sortVars, ctxVars>>

\* Namespace.LoadFromFile(file_path), called by user code
LoadFromFile(file_path) ==
    /\ active = << >>
    /\ CanRead({file_path})
    /\ LET r == loadFromFile(Registry, instances, files, file_path)
       IN /\ Registry' = r.reg
          /\ instances' = r.insts
          /\ loadCall' = [op |-> "LoadFromFile", file_path |-> file_path, ns |-> r.inst,
                          held |-> HeldBy(Registry, instances, FileURIAt(files, file_path)),
                          result |-> r.result, raised |-> r.raised,
                          entered |-> FALSE, depth |-> 0]
    /\ UNCHANGED <<LoadableNamespaces, active>>
    /\ LoadFrame

LoadNext ==
    \/ Construct(ContentURI, NoPrefix)
    \/ \E ns \in ContentNamespaces : ConfigureCategories(ns, {SaveCategory})
    \/ \E ns \in ContentNamespaces, o \in NamedObjects :
          AddCategoryObject(ns, SaveCategory, SaveName, o)
    \/ \E self \in ContentNamespaces, p \in Paths : SaveToFile(self, p)
    \/ \E p \in AllPaths : LoadFromFile(p)

(***************************************************************************)
(* validateSchema, _defineSchema_overload and the index of cache files     *)
(***************************************************************************)
\* A cache file of the running format for a namespace user code has not
\* created.
CachePath == "b"
CacheFile(uri) ==
    << uri, <<PICKLE_FORMAT, uri>>, [c \in {SaveCategory} |-> [n \in {SaveName} |-> "o2"]] >>

\* The cache directory when the program starts: empty, or with one file,
\* of the old or of the running format.
ValidateFiles ==
    {EmptyDict, [p \in {OldPath} |-> OldFile("urn:b")], [p \in {CachePath} |-> CacheFile("urn:b")]}

ValidateStart ==
    /\ catCall = NoCatCall
    /\ files \in ValidateFiles
    /\ PicklingNamespace = NoInstance
    /\ saveCall = NoSaveCall

\* One file of the scan in _LoadableNamespaceMap, reading the category maps
\* as well.
ScanFile_ReadsAll(st, fs, afn) ==
    LET r == loadFromFile(st.reg, st.insts, fs, afn)
    IN IF r.raised # "none"
       THEN [reg |-> r.reg, insts |-> r.insts, index |-> st.index, raised |-> r.raised]
       ELSE [reg |-> r.reg, insts |-> r.insts,
             index |-> DictSet(st.index, fs[afn][1], afn), raised |-> "none"]

\* One file of the scan in _LoadableNamespaceMap: the URI and the namespace
\* are read (which registers the namespace), the path is entered under the
\* URI.
ScanFile(st, fs, afn) ==
    LET u == ReadIdentity(st.reg, st.insts, fs, afn)
    IN IF u.raised # "none"
       THEN [reg |-> u.reg, insts |-> u.insts, index |-> st.index, raised |-> u.raised]
       ELSE [reg |-> u.reg, insts |-> u.insts,
             index |-> DictSet(st.index, fs[afn][1], afn), raised |-> "none"]

\* The loop over the files, in the order os.listdir gives them; an
\* exception ends it.
RECURSIVE ScanFiles(_, _, _)
ScanFiles(st, fs, order) ==
    IF order = << >> \/ st.raised # "none"
    THEN st
    ELSE ScanFiles(ScanFile(st, fs, Head(order)), fs, Tail(order))

\* _LoadableNamespaceMap(): the index, built by the first call.  The index
\* is assigned an empty dict before the scan, so a scan that raises leaves
\* what it has entered so far.
LoadableNamespaceMap(index, reg, insts, fs, order) ==
    IF index # NoDict
    THEN [reg |-> reg, insts |-> insts, index |-> index, raised |-> "none"]
    ELSE ScanFiles([reg |-> reg, insts |-> insts, index |-> EmptyDict, raised |-> "none"],
                   fs, order)

\* The calls in progress left without finally clauses.
Finally_LeavesFlags(inst, op) == inst

\* The finally clauses of one call in progress.
Finally(inst, op) ==
    IF op = "validateSchema"
    THEN [inst EXCEPT !.inSchemaLoad = FALSE, !.inValidation = FALSE]
    ELSE IF op = "_defineSchema_overload"
    THEN [inst EXCEPT !.inSchemaLoad = FALSE]
    ELSE inst

\* An exception leaves every call in progress through its finally clauses.
RECURSIVE Unwind(_, _)
Unwind(insts, frames) ==
    IF frames = << >>
    THEN insts
    ELSE Unwind([insts EXCEPT ![Head(frames).ns] = Finally(@, Head(frames).op)],
                Tail(frames))

\* The reentrancy guards, never failing.
Reentered_Never(me, op) == FALSE

\* The reentrancy guards: assert not self.__inValidation in validateSchema,
\* assert not self.__inSchemaLoad in _defineSchema_overload.
Reentered(me, op) == (op = "validateSchema" /\ me.inValidation) \/ me.inSchemaLoad

\* self.validateSchema() (op = "validateSchema") or the base
\* self._defineSchema_overload() (op = "_defineSchema_overload"), up to the
\* point where LoadFromFile reads the category maps and the code of the
\* pickled components runs: the call returns, raises, or is in progress.
callSchema(reg, insts, index, frames, fs, self, op, order) ==
    LET me == insts[self]
        validating == op = "validateSchema"
        same == [reg |-> reg, insts |-> insts, index |-> index, frames |-> frames,
                 raised |-> "none", entered |-> FALSE]
        assertion == [reg |-> reg, insts |-> Unwind(insts, frames), index |-> index,
                      frames |-> << >>, raised |-> "AssertionError", entered |-> FALSE]
    IN IF validating /\ me.didValidation THEN same
       ELSE IF Reentered(me, op) THEN assertion
       ELSE IF me.uri = NoURI
       THEN [same EXCEPT !.insts[self].didValidation = validating \/ @]
       ELSE LET m == LoadableNamespaceMap(index, reg, insts, fs, order)
            IN IF m.raised # "none"
               THEN [reg |-> m.reg, insts |-> Unwind(m.insts, frames), index |-> m.index,
                     frames |-> << >>, raised |-> m.raised, entered |-> FALSE]
               ELSE IF me.uri \notin DOMAIN m.index
               THEN [reg |-> m.reg,
                     insts |-> [m.insts EXCEPT ![self].didValidation = validating \/ @],
                     index |-> m.index, frames |-> frames, raised |-> "none",
                     entered |-> FALSE]
               ELSE LET afn == m.index[me.uri]
                        u == ReadIdentity(m.reg, m.insts, fs, afn)
                    IN IF u.raised # "none"
                       THEN [reg |-> u.reg, insts |-> Unwind(u.insts, frames),
                             index |-> m.index, frames |-> << >>, raised |-> u.raised,
                             entered |-> FALSE]
                       ELSE [reg |-> u.reg,
                             insts |-> [u.insts EXCEPT
                                           ![self].inSchemaLoad = TRUE,
                                           ![self].inValidation = validating \/ @],
                             index |-> m.index,
                             frames |-> Append(frames, [op |-> op, ns |-> self,
                                                        file_path |-> afn,
                                                        loads |-> u.inst]),
                             raised |-> "none", entered |-> TRUE]

\* The orders in which os.listdir may give the files.
ListOrders == Orderings(DOMAIN files)

\* AvailableForLoad(), called by user code
AvailableForLoad(order) ==
    /\ active = << >>
    /\ CanRead(DOMAIN files)
    /\ LET m == LoadableNamespaceMap(LoadableNamespaces, Registry, instances, files, order)
       IN /\ Registry' = m.reg
          /\ instances' = m.insts
          /\ LoadableNamespaces' = m.index
          /\ loadCall' = [NoLoadCall EXCEPT !.op = "AvailableForLoad", !.raised = m.raised]
    /\ UNCHANGED active
    /\ LoadFrame

\* ns.validateSchema() or ns._defineSchema_overload(), called by user code
\* or, while a load is in progress, by the code of a pickled component
CallSchema(self, op, order) ==
    /\ Len(active) < MaxDepth
    /\ CanRead(DOMAIN files)
    /\ LET r == callSchema(Registry, instances, LoadableNamespaces, active, files,
                           self, op, order)
       IN /\ Registry' = r.reg
          /\ instances' = r.insts
          /\ LoadableNamespaces' = r.index
          /\ active' = r.frames
          /\ loadCall' = [op |-> op, file_path |-> "None", ns |-> self,
                          held |-> instances[self].categoryMap, result |-> NoInstance,
                          raised |-> r.raised, entered |-> r.entered,
                          depth |-> Len(active)]
    /\ LoadFrame

\* Namespace.LoadFromFile(file_path), called by user code, up to the point
\* where the category maps are read
BeginLoadFromFile(file_path) ==
    /\ active = << >>
    /\ CanRead({file_path})
    /\ LET u == ReadIdentity(Registry, instances, files, file_path)
       IN /\ Registry' = u.reg
          /\ IF u.raised # "none"
             THEN /\ instances' = Unwind(u.insts, active)
                  /\ active' = << >>
             ELSE /\ instances' = u.insts
                  /\ active' = Append(active, [op |-> "LoadFromFile", ns |-> u.inst,
                                               file_path |-> file_path, loads |-> u.inst])
          /\ loadCall' = [op |-> "LoadFromFile", file_path |-> file_path, ns |-> u.inst,
                          held |-> HeldBy(Registry, instances, FileURIAt(files, file_path)),
                          result |-> NoInstance, raised |-> u.raised,
                          entered |-> u.raised = "none", depth |-> Len(active)]
    /\ UNCHANGED LoadableNamespaces
    /\ LoadFrame

\* The innermost load in progress reads the category maps, merges them and
\* returns to the call that began it, which returns in turn.
LoadReturns ==
    /\ active # << >>
    /\ LET fr == active[Len(active)]
           m == ReadCategoryMaps(instances, fr.loads, files[fr.file_path])
       IN /\ IF m.raised # "none"
             THEN /\ instances' = Unwind(m.insts, active)
                  /\ active' = << >>
             ELSE /\ instances' =
                        [m.insts EXCEPT ![fr.ns] =
                            [Finally(@, fr.op) EXCEPT
                                !.didValidation = (fr.op = "validateSchema") \/ @]]
                  /\ active' = SubSeq(active, 1, Len(active) - 1)
          /\ loadCall' = [op |-> fr.op, file_path |-> fr.file_path, ns |-> fr.ns,
                          held |-> instances[fr.loads].categoryMap,
                          result |-> NoInstance, raised |-> m.raised,
                          entered |-> FALSE, depth |-> Len(active) - 1]
    /\ UNCHANGED <<Registry, LoadableNamespaces>>
    /\ LoadFrame

\* The namespaces validateSchema is called on: those of the user URIs.
ValidateNamespaces == {Registry[u] : u \in UserURIs} \ {NoInstance}

ValidateNext ==
    \/ active = << >> /\ Construct(ContentURI, NoPrefix)
    \/ active = << >> /\ \E ns \in ContentNamespaces : ConfigureCategories(ns, {SaveCategory})
    \/ active = << >> /\ \E ns \in ContentNamespaces :
                            AddCategoryObject(ns, SaveCategory, SaveName, "o1")
    \/ active = << >> /\ \E self \in ContentNamespaces : SaveToFile(self, "f")
    \/ \E order \in ListOrders : AvailableForLoad(order)
    \/ \E self \in ValidateNamespaces, order \in ListOrders :
          CallSchema(self, "validateSchema", order)
    \/ \E self \in ValidateNamespaces, order \in ListOrders :
          CallSchema(self, "_defineSchema_overload", order)
    \/ \E p \in DOMAIN files : BeginLoadFromFile(p)
    \/ LoadReturns

(***************************************************************************)
(* Claims about loading                                                    *)
(***************************************************************************)
\* The step is a LoadFromFile call, the one loadCall' describes.
LoadStep ==
    /\ loadCall'.op = "LoadFromFile"
    /\ LoadFromFile(loadCall'.file_path)

\* The file of the call exists and holds a namespace in another format.
OtherFormat(file_path) ==
    /\ file_path \in DOMAIN files
    /\ Len(files[file_path]) >= 2
    /\ files[file_path][2][1] # PICKLE_FORMAT

Pairs(category_map) ==
    {<<c, n>> : c \in DOMAIN category_map, n \in LocalNames} \cap
    UNION {{<<c, n>> : n \in DOMAIN category_map[c]} : c \in DOMAIN category_map}

\* The file of the call was written completely by saveToFile, and the
\* registry holds a namespace for its URI.
SavedForRegistered(file_path) ==
    /\ file_path \in DOMAIN files
    /\ Len(files[file_path]) = 3
    /\ files[file_path][2][1] = PICKLE_FORMAT
    /\ Registry[files[file_path][1]] # NoInstance

\* C22: round trip: when saveToFile has saved a non-absent namespace, loading
\* that file with LoadFromFile into the registered namespace of the same
\* URI, whose category maps are empty, yields category maps whose set of
\* (category, localName) pairs equals the set that was saved.
C22_RoundTrip ==
    [][(/\ LoadStep
        /\ SavedForRegistered(loadCall'.file_path)
        /\ Pairs(loadCall'.held) = {})
          => /\ loadCall'.raised = "none"
             /\ Pairs(instances'[loadCall'.ns].categoryMap)
                   = Pairs(files[loadCall'.file_path][3])]_vars

\* A file with a binding was loaded into the namespace after its maps were
\* emptied, and the namespace holds the binding again.
C22_Witness ==
    /\ loadCall.op = "LoadFromFile"
    /\ loadCall.raised = "none"
    /\ loadCall.file_path \in Paths
    /\ Pairs(loadCall.held) = {}
    /\ Pairs(instances[loadCall.ns].categoryMap) = {<<SaveCategory, SaveName>>}

\* C23: loading cached category maps into a namespace whose category maps
\* already hold at least one component fails loudly and merges nothing: the
\* namespace's bindings are all unchanged after the attempt.
C23_LoadIntoFilledFails ==
    [][(/\ LoadStep
        /\ SavedForRegistered(loadCall'.file_path)
        /\ Pairs(loadCall'.held) # {})
          => /\ loadCall'.raised # "none"
             /\ instances'[Registry[files[loadCall'.file_path][1]]].categoryMap
                   = loadCall'.held]_vars

\* C30: LoadFromFile(path) returns the Namespace instance that the registry
\* holds for the URI stored in the file, with the file's category maps
\* merged into it.
C30_LoadReturnsInstance ==
    [][(LoadStep /\ loadCall'.raised = "none")
          => /\ loadCall'.result # NoInstance
             /\ loadCall'.result = Registry'[files[loadCall'.file_path][1]]
             /\ \A pr \in Pairs(files[loadCall'.file_path][3]) :
                   pr \in Pairs(instances'[loadCall'.ns].categoryMap)]_vars

(***************************************************************************)
(* Specifications                                                          *)
(***************************************************************************)
Init == RegistryInit /\ ResolveIdle /\ SortIdle /\ ContextIdle /\ ContentIdle /\ LoadIdle
Next == RegistryNext
Spec == Init /\ [][Next]_vars

InitResolve == RegistryInit /\ ResolveInit /\ SortIdle /\ ContextIdle /\ ContentIdle /\ LoadIdle
SpecResolve ==
    /\ InitResolve
    /\ [][ResolveNext]_vars
    /\ WF_vars(ResolveNext)

InitSort == RegistryInit /\ ResolveIdle /\ SortInit /\ ContextIdle /\ ContentIdle /\ LoadIdle
SpecSort == InitSort /\ [][SortNext]_vars

SpecResolveFree ==
    /\ Init
    /\ [][ResolveFreeNext]_vars
    /\ WF_vars(ResolveFreeNext)

SpecContext == Init /\ [][ContextNext]_vars

SpecQName == Init /\ [][QNameNext]_vars

SpecTree == Init /\ [][TreeNext]_vars

SpecScope == Init /\ [][ScopeNext]_vars

SpecContent == Init /\ [][ContentNext]_vars

SpecSave == Init /\ [][SaveNext]_vars

InitLoad == RegistryInit /\ ResolveIdle /\ SortIdle /\ ContextIdle /\ CacheStart /\ LoadIdle
SpecLoad == InitLoad /\ [][LoadNext]_vars

(***************************************************************************)
(* Claims about validation and the index                                   *)
(***************************************************************************)
SchemaOps == {"validateSchema", "_defineSchema_overload"}

\* The step is a call of validateSchema or _defineSchema_overload (not the
\* return of one that was in progress); loadCall' has its arguments.
SchemaCallStep ==
    /\ loadCall'.op \in SchemaOps
    /\ \E order \in ListOrders : CallSchema(loadCall'.ns, loadCall'.op, order)

\* What a namespace holds.
Content(inst) == <<inst.categoryMap, inst.components>>

\* C24: a step that builds the index of cache files leaves the category
\* maps and the component set of every namespace as they were, and the
\* namespaces it registers hold nothing; the category maps of a namespace
\* gain a name only by addCategoryObject or by the return of a
\* full load (validateSchema, _defineSchema_overload, LoadFromFile) for
\* that namespace.
C24_TwoPhaseLoad ==
    [][/\ (LoadableNamespaces = NoDict /\ LoadableNamespaces' # NoDict)
            => /\ \A i \in DOMAIN instances : Content(instances'[i]) = Content(instances[i])
               /\ \A i \in DOMAIN instances' \ DOMAIN instances :
                     /\ Pairs(instances'[i].categoryMap) = {}
                     /\ instances'[i].components = {}
       /\ \/ \A i \in DOMAIN instances :
                \/ Pairs(instances'[i].categoryMap) \subseteq Pairs(instances[i].categoryMap)
                \/ /\ loadCall'.op \in SchemaOps \cup {"LoadFromFile"}
                   /\ loadCall'.ns = i
                   /\ loadCall'.raised = "none"
                   /\ Len(active') < Len(active)
          \/ AddStep
      ]_vars

\* C24 witness: AvailableForLoad has built the index over the file user
\* code saved for urn:a and the cache file of urn:b; urn:a holds what it
\* held, urn:b is registered and holds nothing.
C24_Witness ==
    /\ loadCall.op = "AvailableForLoad"
    /\ loadCall.raised = "none"
    /\ LoadableNamespaces # NoDict
    /\ DOMAIN LoadableNamespaces = {"urn:a", "urn:b"}
    /\ Registry["urn:a"] # NoInstance
    /\ Registry["urn:b"] # NoInstance
    /\ Pairs(instances[Registry["urn:a"]].categoryMap) # {}
    /\ Pairs(instances[Registry["urn:b"]].categoryMap) = {}

\* A validation or schema load of the namespace is in progress.
Running(self) ==
    \E k \in DOMAIN active : active[k].ns = self /\ active[k].op \in SchemaOps

\* C25 as stated: a call of validateSchema or _defineSchema_overload on a
\* namespace whose validation or schema load is in progress fails with an
\* AssertionError.
C25_NestedCallFails ==
    [][(SchemaCallStep /\ Running(loadCall'.ns)) => loadCall'.raised = "AssertionError"]_vars

\* C25 amended: such a call never begins a second load; it fails with an
\* AssertionError and every call in progress is left, unless it is
\* validateSchema on a namespace validated before, which returns at once
\* and changes nothing.  No namespace ever has two validations or schema
\* loads in progress.
C25_NeverReentered ==
    /\ [][(SchemaCallStep /\ Running(loadCall'.ns))
            => /\ ~loadCall'.entered
               /\ \A i \in DOMAIN instances : Content(instances'[i]) = Content(instances[i])
               /\ \/ loadCall'.raised = "AssertionError" /\ active' = << >>
                  \/ /\ loadCall'.op = "validateSchema"
                     /\ instances[loadCall'.ns].didValidation
                     /\ loadCall'.raised = "none"
                     /\ instances' = instances
                     /\ active' = active]_vars
    /\ [](\A j, k \in DOMAIN active :
             (j # k /\ active[j].op \in SchemaOps /\ active[k].op \in SchemaOps)
                => active[j].ns # active[k].ns)

\* C25 witness: a call made while the namespace's validation was in
\* progress has failed with an AssertionError.
C25_Witness ==
    /\ loadCall.op \in SchemaOps
    /\ loadCall.depth >= 1
    /\ loadCall.raised = "AssertionError"
    /\ active = << >>
    /\ ~instances[loadCall.ns].inValidation
    /\ ~instances[loadCall.ns].inSchemaLoad

\* C26: validateSchema called on a namespace not validated before, when no
\* load of a cache file begins, raises an exception.
C26_UnsuccessfulLoadRaises ==
    [][(/\ SchemaCallStep
        /\ loadCall'.op = "validateSchema"
        /\ ~instances[loadCall'.ns].didValidation
        /\ ~loadCall'.entered) => loadCall'.raised # "none"]_vars

\* C37: whenever no validateSchema and no schema load is in progress for a
\* namespace, its in-validation and in-schema-load flags are false, after a
\* return and after an exception alike; a namespace once validated stays
\* validated, and validateSchema called on it begins no load, builds no
\* index and changes no namespace.
C37_FlagsReleased ==
    /\ [](\A i \in DOMAIN instances :
             ~Running(i) => (~instances[i].inValidation /\ ~instances[i].inSchemaLoad))
    /\ [][\A i \in DOMAIN instances :
             instances[i].didValidation => instances'[i].didValidation]_vars
    /\ [][(/\ SchemaCallStep
           /\ loadCall'.op = "validateSchema"
           /\ instances[loadCall'.ns].didValidation)
            => /\ ~loadCall'.entered
               /\ loadCall'.raised = "none"
               /\ instances' = instances
               /\ active' = active
               /\ Registry' = Registry
               /\ LoadableNamespaces' = LoadableNamespaces]_vars

\* C37 witness: validateSchema has loaded the cache file of a namespace,
\* and a later validateSchema call on it has returned without a load
\* although the index still names its cache file; its flags are false.
C37_Witness ==
    /\ loadCall.op = "validateSchema"
    /\ loadCall.file_path = "None"
    /\ loadCall.depth = 0
    /\ loadCall.raised = "none"
    /\ ~loadCall.entered
    /\ active = << >>
    /\ instances[loadCall.ns].didValidation
    /\ ~instances[loadCall.ns].inValidation
    /\ ~instances[loadCall.ns].inSchemaLoad
    /\ Pairs(instances[loadCall.ns].categoryMap) # {}
    /\ LoadableNamespaces # NoDict
    /\ instances[loadCall.ns].uri \in DOMAIN LoadableNamespaces

InitRecompile == RegistryInit /\ ResolveInit /\ SortIdle /\ ContextIdle /\ ContentIdle /\ LoadIdle
SpecRecompile == InitRecompile /\ [][RecompileNext]_vars

InitValidate == RegistryInit /\ ResolveIdle /\ SortIdle /\ ContextIdle /\ ValidateStart /\ LoadIdle
SpecValidate == InitValidate /\ [][ValidateNext]_vars

====
